---------------------------- MODULE Spec2Model ----------------------------
(***************************************************************************)
(* Verification model of the TypeBeat research API aggregation core:       *)
(*   - the Last.fm client's request queue (lastfm-client.ts),              *)
(*   - the Redis cache wrapper (redis-client.ts),                          *)
(*   - the cached orchestrator (APIOrchestrator, api-orchestrator.ts),     *)
(*   - the suggestions endpoint and the orchestrator it drives.            *)
(* Each component has its own specification over the module's variables;   *)
(* a component's actions leave the other components' variables unchanged.  *)
(***************************************************************************)
EXTENDS Integers, Sequences, FiniteSets, TLC

VARIABLES
    \* ---- LastFmClient (src/src/lib/apis/lastfm-client.ts)
    lfQueue,        \* requestQueue: the queued calls, oldest first
    lfProcessing,   \* isProcessingQueue
    lfLoop,         \* where processQueue is suspended: "idle", "request", "wait"
    lfTimer,        \* ticks left of the setTimeout a waiting processQueue awaits
    lfStatus,       \* per call: "new", "queued", "inflight", "resolved", "rejected"
    lfSubmitted,    \* the calls in the order makeRateLimitedRequest received them
    lfSent,         \* the calls in the order they reached the transport
    lfStarts,       \* ages (in ticks) of the transport starts of the last second
    \* ---- RedisClient (src/src/lib/cache/redis-client.ts)
    rStore,         \* the Redis server's keys: key -> CacheEntry, or NoEntry
    rConnected,     \* isConnected
    rNow,           \* Date.now(), in ticks
    gs,             \* the getOrSet calls in progress: call -> its locals
    \* ---- APIOrchestrator.analyzeArtist (src/unnamed/part_005)
    aCall,          \* the analyzeArtist call in progress: its locals
    aStore,         \* the orchestrator's keys: key -> Absent, or the entry's data
    aPrev,          \* the previous analyzeArtist call, as its caller saw it
    \* ---- POST /api/research/suggestions (src/unnamed/part_004)
    post,           \* the request in progress: the handler's locals
    pResp,          \* the response sent for it
    \* ---- YouTubeClient (src/src/lib/apis/youtube-client.ts)
    ytQuotaUsed,    \* quotaUsed
    yt,             \* the searchVideos calls in progress: call -> its position
    \* ---- SpotifyClient (src/src/lib/apis/spotify-client.ts, src/unnamed/part_007)
    spImpl,         \* which of the two classes the client is, or Unbuilt
    spToken,        \* accessToken
    spLeft,         \* tokenExpiresAt - Date.now(), in ticks (0 when passed)
    spCount,        \* requestCount
    spSince,        \* Date.now() - lastRequestTime, in ticks
    sp,             \* the API requests in progress: request -> its position
    \* ---- GeniusClient under analyzeArtist (src/unnamed/part_005)
    gnCount,        \* requestCount
    gn,             \* the analysis in progress: its Genius requests and results
    \* ---- findSimilarArtists (src/unnamed/part_005, suggestions/utils.ts)
    fs,             \* the findSimilarArtists call in progress: its locals
    \* ---- the entry points (src/unnamed/part_003, part_004, part_005)
    en,             \* the request or call in progress, from its artist name on
    \* ---- a caller of RedisClient.set and get (src/src/lib/cache/redis-client.ts)
    sg,             \* the caller's set and the read that follows it
    \* ---- the result of analyzeArtist through the cache (src/unnamed/part_005)
    rp,             \* the first call's result, the stored one, the second call's
    \* ---- ScoringService (src/src/lib/services/math-utils.ts)
    sc,             \* the component scores passed and the FinalScore returned
    \* ---- calculateGenreOverlap (similarity-calculator.ts, suggestions/utils.ts)
    go,             \* the genre lists passed and the overlaps returned
    \* ---- YouTubeAnalyzer.analyzeTrends (src/src/lib/services/youtube-analyzer.ts)
    tr,             \* the clock, the videos analysed and the two results
    \* ---- GeniusClient.checkRateLimit in time (src/unnamed/part_005)
    gt,             \* the clock, lastRequestTime, the callers and the last sends
    \* ---- the cache entries of analyzeArtist by key (src/unnamed/part_005)
    ky              \* the store, the versions computed and the last two calls

lfVars == <<lfQueue, lfProcessing, lfLoop, lfTimer, lfStatus, lfSubmitted,
            lfSent, lfStarts>>

rVars == <<rStore, rConnected, rNow, gs>>

aVars == <<aCall, aStore, aPrev>>

pVars == <<post, pResp>>

yVars == <<ytQuotaUsed, yt>>

\* The queue, cache, orchestrator and endpoint components, and the provider
\* client components.
coreVars == <<lfVars, rVars, aVars, pVars>>

sVars == <<spImpl, spToken, spLeft, spCount, spSince, sp>>

gVars == <<gnCount, gn>>

fVars == <<fs>>

\* The components over the orchestrators' pure steps.
eVars == <<en>>

cVars == <<sg>>

resVars == <<rp>>

scVars == <<sc>>
calcVars == <<go, tr, gt, ky>>

libVars == <<fVars, eVars, cVars, resVars, scVars, calcVars>>

clientVars == <<yVars, sVars, gVars, libVars>>

vars == <<coreVars, clientVars>>

-----------------------------------------------------------------------------
(***************************************************************************)
(* LastFmClient: makeRateLimitedRequest / processQueue                     *)
(***************************************************************************)

\* Number of calls submitted to one client in a run.
MaxCalls == 8

\* private readonly RATE_LIMIT = 5 (requests per second)
RATE_LIMIT == 5

\* The pause of processQueue between two requests, in milliseconds.
DrainDelayMs == 200

\* The length of the quota period ("par seconde"), in milliseconds.
QuotaWindowMs == 1000

\* Time advances in ticks of half a drain pause.
MsPerTick == DrainDelayMs \div 2

WindowTicks == QuotaWindowMs \div MsPerTick

LfCalls == 1..MaxCalls

\* await new Promise(resolve => setTimeout(resolve, 200))
DrainDelayTicks_Short == (DrainDelayMs \div 2) \div MsPerTick
DrainDelayTicks == DrainDelayMs \div MsPerTick

\* this.requestQueue.shift(): the request processQueue takes next, and the
\* queue it leaves.
QueueShift_Pop(q) == [request |-> q[Len(q)], rest |-> SubSeq(q, 1, Len(q) - 1)]
QueueShift_Twice(q) ==
    [request |-> Head(q), rest |-> IF Len(q) > 1 THEN Tail(Tail(q)) ELSE <<>>]
QueueShift(q) == [request |-> Head(q), rest |-> Tail(q)]

\* One iteration of processQueue's while loop began: the wrapped request is
\* called, which calls requestFn and so hands the call to the transport.
LfStartRequest(q) ==
    LET c == QueueShift(q).request IN
    /\ lfQueue' = QueueShift(q).rest
    /\ lfStatus' = [lfStatus EXCEPT ![c] = "inflight"]
    /\ lfSent' = Append(lfSent, c)
    /\ lfStarts' = Append(lfStarts, 0)
    /\ lfLoop' = "request"
    /\ lfTimer' = 0

\* makeRateLimitedRequest(requestFn): push the wrapped request; when no
\* processQueue is running, start one, which runs synchronously up to its
\* first await, that is into the first request.
LfSubmit ==
    /\ Len(lfSubmitted) < MaxCalls
    /\ LET c == Len(lfSubmitted) + 1 IN
       /\ lfSubmitted' = Append(lfSubmitted, c)
       /\ IF ~lfProcessing
          THEN /\ lfProcessing' = TRUE
               /\ LfStartRequest(Append(lfQueue, c))
          ELSE /\ lfQueue' = Append(lfQueue, c)
               /\ lfStatus' = [lfStatus EXCEPT ![c] = "queued"]
               /\ UNCHANGED <<lfProcessing, lfLoop, lfTimer, lfSent, lfStarts>>

\* The request in flight settles (axios answers, fails or times out): the
\* wrapper resolves or rejects the caller's promise, and processQueue goes on
\* to its 200 ms pause.
LfRequestSettle ==
    /\ lfLoop = "request"
    /\ \E c \in LfCalls :
        /\ lfStatus[c] = "inflight"
        /\ \E ok \in BOOLEAN :
            lfStatus' = [lfStatus EXCEPT ![c] = IF ok THEN "resolved" ELSE "rejected"]
    /\ lfLoop' = "wait"
    /\ lfTimer' = DrainDelayTicks
    /\ UNCHANGED <<lfQueue, lfProcessing, lfSubmitted, lfSent, lfStarts>>

\* The pause is over: the while condition is evaluated again.
LfWaitDone ==
    /\ lfLoop = "wait"
    /\ lfTimer = 0
    /\ IF Len(lfQueue) > 0
       THEN /\ LfStartRequest(lfQueue)
            /\ UNCHANGED <<lfProcessing, lfSubmitted>>
       ELSE /\ lfProcessing' = FALSE
            /\ lfLoop' = "idle"
            /\ UNCHANGED <<lfQueue, lfTimer, lfStatus, lfSubmitted, lfSent, lfStarts>>

RECURSIVE AgeStarts(_)
AgeStarts(s) ==
    IF s = <<>> THEN <<>>
    ELSE IF Head(s) + 1 >= WindowTicks THEN AgeStarts(Tail(s))
         ELSE <<Head(s) + 1>> \o AgeStarts(Tail(s))

\* One tick of wall-clock time passes.
LfTick ==
    /\ lfStarts' = AgeStarts(lfStarts)
    /\ lfTimer' = IF lfLoop = "wait" /\ lfTimer > 0 THEN lfTimer - 1 ELSE lfTimer
    /\ UNCHANGED <<lfQueue, lfProcessing, lfLoop, lfStatus, lfSubmitted, lfSent>>

-----------------------------------------------------------------------------
(***************************************************************************)
(* RedisClient: get / set / delete / getOrSet                              *)
(***************************************************************************)

\* Last tick of the clock.
MaxTime == 3

\* Longest time-to-live, in ticks, a caller passes to set.
MaxTtl == 1

CacheKeys == {"k1", "k2"}

\* The getOrSet calls this model follows; the other users of the store are the
\* steps ROtherSet and ROtherDelete.
GsCalls == {"c1"}

\* Values a factory produces: JavaScript null (nothing found), a plain data
\* object, and an object that holds a Date (calculated_at).
Null == "null"
FactoryValues == {Null, "artist", "metrics(Date)"}

\* JSON.parse(JSON.stringify(v)): null and plain data come back equal, a Date
\* comes back as its ISO string.
JsonRoundTrip_AsIs(v) == v
JsonRoundTrip(v) == IF v = "metrics(Date)" THEN "metrics(string)" ELSE v

\* No key at the server.
NoEntry == [present |-> FALSE, data |-> Null, timestamp |-> 0, ttl |-> 0]

\* const entry: CacheEntry<T> = { data: value, timestamp: Date.now(), ttl: finalTTL }
\* as it is after JSON.stringify and JSON.parse.
MakeEntry(value, now, ttl) ==
    [present |-> TRUE, data |-> JsonRoundTrip(value), timestamp |-> now, ttl |-> ttl]

\* if (now > entry.timestamp + (entry.ttl * 1000))
Expired_Always(entry, now) == TRUE
Expired_Never(entry, now) == FALSE
Expired(entry, now) == now > entry.timestamp + entry.ttl

\* The server's own expiry of a key written with SETEX.
ServerExpired(entry, now) == now >= entry.timestamp + entry.ttl

\* if (cached !== null) return cached;
IsHit(cached) == cached # Null

\* A getOrSet call's locals.  live: the data of the live entry its GET found
\* ("none": it found none); ranFactory: factory was invoked; setOk: set
\* returned true; clobbered: since its set, another operation changed the key.
NoLive == "none"
GsIdle ==
    [pc |-> "idle", key |-> "k1", value |-> Null, live |-> NoLive,
     ranFactory |-> FALSE, setOk |-> FALSE, clobbered |-> FALSE]

\* Another operation changed key k: every call that has stored its value under
\* k and has not returned yet loses the guarantee that the key still holds it.
Clobber(k, by) ==
    [c \in GsCalls |->
        IF c # by /\ gs[c].key = k /\ gs[c].pc = "return" /\ gs[c].setOk
        THEN [gs[c] EXCEPT !.clobbered = TRUE] ELSE gs[c]]

\* A store operation of a call that could not be done: get and delete and set
\* return from their `if (!this.isConnected)` guard or from their catch block
\* (null, false, false), so the call goes on to its next step.  Were the error
\* to escape instead, getOrSet, which has no try of its own, would reject.
StoreFailure_Thrown(call, next) == [call EXCEPT !.pc = "storeThrew"]
StoreFailure(call, next) == [call EXCEPT !.pc = next]

\* A caller calls getOrSet(key, factory, ttl).
GsCall(c, k) ==
    /\ gs[c].pc = "idle"
    /\ gs' = [gs EXCEPT ![c] = [GsIdle EXCEPT !.pc = "get", !.key = k]]
    /\ UNCHANGED <<rStore, rConnected, rNow>>

\* get(key), up to the expiry check: a miss when the client is not connected,
\* when the command fails, when the key is absent; an expired entry is deleted
\* next; a live entry's data is returned to getOrSet, which takes null for a miss.
GsGet(c) ==
    /\ gs[c].pc = "get"
    /\ LET k == gs[c].key
           entry == rStore[k]
       IN
       \E commandFails \in BOOLEAN :
          IF ~rConnected \/ commandFails
          THEN gs' = [gs EXCEPT ![c] = StoreFailure(gs[c], "factory")]
          ELSE IF ~entry.present
          THEN gs' = [gs EXCEPT ![c].pc = "factory"]
          ELSE IF Expired(entry, rNow)
          THEN gs' = [gs EXCEPT ![c].pc = "delete"]
          ELSE IF IsHit(entry.data)
          THEN gs' = [gs EXCEPT ![c].pc = "return", ![c].value = entry.data,
                                ![c].live = entry.data]
          ELSE gs' = [gs EXCEPT ![c].pc = "factory", ![c].live = entry.data]
    /\ UNCHANGED <<rStore, rConnected, rNow>>

\* await this.delete(key) of an expired entry: DEL, unless the client is not
\* connected or the command fails.
GsDelete(c) ==
    /\ gs[c].pc = "delete"
    /\ LET k == gs[c].key IN
       \E commandFails \in BOOLEAN :
          IF rConnected /\ ~commandFails
          THEN /\ rStore' = [rStore EXCEPT ![k] = NoEntry]
               /\ gs' = [Clobber(k, c) EXCEPT ![c].pc = "factory"]
          ELSE /\ gs' = [gs EXCEPT ![c] = StoreFailure(gs[c], "factory")]
               /\ UNCHANGED rStore
    /\ UNCHANGED <<rConnected, rNow>>

\* const value = await factory(): the factory yields a value, or throws and
\* getOrSet rejects.
GsFactory(c) ==
    /\ gs[c].pc = "factory"
    /\ \/ \E v \in FactoryValues :
            gs' = [gs EXCEPT ![c].pc = "set", ![c].value = v, ![c].ranFactory = TRUE]
       \/ gs' = [gs EXCEPT ![c].pc = "threw", ![c].ranFactory = TRUE]
    /\ UNCHANGED <<rStore, rConnected, rNow>>

\* set(key, value, ttl): SETEX of the serialized entry.
SetStores_Not(k, value, ttl) == rStore
SetStores(k, value, ttl) == [rStore EXCEPT ![k] = MakeEntry(value, rNow, ttl)]

\* await this.set(key, value, ttl, dataType), which returns false, and stores
\* nothing, when the client is not connected or the command fails; then
\* getOrSet is about to return the value.
GsSet(c) ==
    /\ gs[c].pc = "set"
    /\ LET k == gs[c].key IN
       \E commandFails \in BOOLEAN, ttl \in 1..MaxTtl :
          IF rConnected /\ ~commandFails
          THEN /\ rStore' = SetStores(k, gs[c].value, ttl)
               /\ gs' = [Clobber(k, c) EXCEPT ![c].pc = "return", ![c].setOk = TRUE]
          ELSE /\ gs' = [gs EXCEPT ![c] = StoreFailure(gs[c], "return")]
               /\ UNCHANGED rStore
    /\ UNCHANGED <<rConnected, rNow>>

\* return cached / return value
GsReturn(c) ==
    /\ gs[c].pc = "return"
    /\ gs' = [gs EXCEPT ![c].pc = "done"]
    /\ UNCHANGED <<rStore, rConnected, rNow>>

\* The caller is finished with the result; it may call again.
GsForget(c) ==
    /\ gs[c].pc \in {"done", "threw"}
    /\ gs' = [gs EXCEPT ![c] = GsIdle]
    /\ UNCHANGED <<rStore, rConnected, rNow>>

\* connect(), or the client's 'ready' event.
RConnect ==
    /\ ~rConnected
    /\ rConnected' = TRUE
    /\ UNCHANGED <<rStore, rNow, gs>>

\* disconnect(), or the client's 'error' or 'close' event.
RDisconnect ==
    /\ rConnected
    /\ rConnected' = FALSE
    /\ UNCHANGED <<rStore, rNow, gs>>

\* One tick of wall-clock time passes.
RTick ==
    /\ rNow < MaxTime
    /\ rNow' = rNow + 1
    /\ UNCHANGED <<rStore, rConnected, gs>>

\* The Redis server removes a key whose SETEX time-to-live has run out.
RServerExpire(k) ==
    /\ rStore[k].present
    /\ ServerExpired(rStore[k], rNow)
    /\ rStore' = [rStore EXCEPT ![k] = NoEntry]
    /\ gs' = Clobber(k, "server")
    /\ UNCHANGED <<rConnected, rNow>>

\* Another caller of the store (another request of this process, or another
\* process on the same Redis server) writes the key with set.
ROtherSet(k) ==
    /\ \E v \in FactoryValues, ttl \in 1..MaxTtl : rStore' = SetStores(k, v, ttl)
    /\ gs' = Clobber(k, "other")
    /\ UNCHANGED <<rConnected, rNow>>

\* Another caller of the store removes the key with delete.
ROtherDelete(k) ==
    /\ rStore[k].present
    /\ rStore' = [rStore EXCEPT ![k] = NoEntry]
    /\ gs' = Clobber(k, "other")
    /\ UNCHANGED <<rConnected, rNow>>

-----------------------------------------------------------------------------
(***************************************************************************)
(* APIOrchestrator.analyzeArtist (src/unnamed/part_005), one call after    *)
(* the other, over the cache client.  The store is seen here through the   *)
(* keys the orchestrator uses: a key is absent, or holds a live entry with *)
(* its data; an entry's end of life is the step AExpire.                   *)
(***************************************************************************)

Providers == {"youtube", "spotify", "lastfm", "genius"}

\* The providers asked for the artist's base data under Promise.allSettled.
BaseProviders == {"spotify", "lastfm", "genius"}

\* options: forceRefresh is TRUE when the caller passes it as true, FALSE when
\* the caller leaves it out; the callers of this model leave includeRelated and
\* maxRelated out, so no related artists are fetched.
AOptions == [forceRefresh : BOOLEAN]

NoOptions == [forceRefresh |-> FALSE]

\* The providers that are down while a call runs: none, one, or all of them.
DownSets == {{}} \cup {{p} : p \in Providers} \cup {Providers}

\* this.cache.generateKey('artist_analysis', artistName, JSON.stringify(options))
\* for the one artist name of this model: the options are part of the key.
AnalysisKey(opts) == <<"artist_analysis", opts>>

\* this.cache.generateKey('spotify_artist', artistName), and so on.
ProviderKey(p) == <<p, NoOptions>>

AKeys == {AnalysisKey(o) : o \in AOptions} \cup {ProviderKey(p) : p \in Providers}

Absent == "absent"

\* get(key) as the orchestrator sees it: null when the client is not connected,
\* the command fails or the key is absent; the entry's data otherwise.
AGet(k, readFails) ==
    IF rConnected /\ ~readFails /\ aStore[k] # Absent THEN aStore[k] ELSE Null

\* set(key, value, ...): stores the entry unless the client is not connected or
\* the command fails.
ASet(k, value, writeFails) ==
    IF rConnected /\ ~writeFails THEN [aStore EXCEPT ![k] = value] ELSE aStore

\* What a provider's factory yields: the artist's data when the call succeeds;
\* GeniusClient.findArtist catches a failed call and yields null.
FactoryValue(p, down) == IF p \in down THEN Null ELSE "data"

\* return { ...cached, processingTime: ..., cached: true }
HitResult_AsStored(stored) == [data |-> stored, cached |-> FALSE]
HitResult(stored) == [data |-> stored, cached |-> TRUE]

\* const result: ArtistAnalysisResult = { ..., cached: false }
FreshResult == [data |-> "data", cached |-> FALSE]

NoResult == [data |-> Null, cached |-> FALSE]

\* The steps of analyzeArtist in the order its body takes them, under the
\* names the request state machine gives them: the cache lookup, the
\* Promise.allSettled over the three providers (FAN_OUT), createMainArtist
\* (MERGE), getRelatedArtists and analyzeYouTubeMetrics (ENRICH),
\* calculateSimilarityMetrics (SCORE), cache.set (CACHE_STORE), return (DONE).
Received == <<"RECEIVED">>

\* if (!options.forceRefresh) { cached = await this.cache.get(cacheKey); if (cached) return ... }
CacheCheckStates_Always(opts, cached) ==
    <<"CACHE_CHECK">> \o (IF cached # Null THEN <<"CACHE_HIT", "DONE">> ELSE <<"CACHE_MISS">>)
CacheCheckStates(opts, cached) ==
    IF opts.forceRefresh THEN << >>
    ELSE <<"CACHE_CHECK">> \o (IF cached # Null THEN <<"CACHE_HIT", "DONE">> ELSE <<"CACHE_MISS">>)

\* createMainArtist, then the awaited analyzeYouTubeMetrics, then
\* calculateSimilarityMetrics; a rejected analyzeYouTubeMetrics leaves the
\* body before the similarity metrics are computed.
AnalysisStates(youtubeOk) ==
    IF youtubeOk THEN <<"MERGE", "ENRICH", "SCORE">> ELSE <<"MERGE", "ENRICH">>

StoreStates == <<"CACHE_STORE", "DONE">>

ACallIdle ==
    [pc |-> "idle", opts |-> NoOptions, down |-> {},
     called |-> {}, fetched |-> {}, readOk |-> FALSE, result |-> NoResult,
     trace |-> << >>]

\* A caller calls analyzeArtist(artistName, options).  down: the providers
\* whose every call fails while this call runs.
AStart(opts, down) ==
    /\ aCall.pc = "idle"
    /\ aCall' = [ACallIdle EXCEPT !.pc = "check", !.opts = opts, !.down = down,
                                  !.trace = Received]
    /\ UNCHANGED <<aStore, aPrev>>

\* if (!options.forceRefresh) { const cached = await this.cache.get(cacheKey);
\*   if (cached) return { ...cached, cached: true } }
ACheck ==
    /\ aCall.pc = "check"
    /\ IF aCall.opts.forceRefresh
       THEN aCall' = [aCall EXCEPT !.pc = "base",
                                   !.trace = @ \o CacheCheckStates(aCall.opts, Null)]
       ELSE \E readFails \in BOOLEAN :
               LET cached == AGet(AnalysisKey(aCall.opts), readFails) IN
               IF cached # Null
               THEN aCall' = [aCall EXCEPT !.pc = "done", !.result = HitResult(cached),
                                           !.readOk = TRUE,
                                           !.trace = @ \o CacheCheckStates(aCall.opts, cached)]
               ELSE aCall' = [aCall EXCEPT !.pc = "base",
                                           !.readOk = rConnected /\ ~readFails,
                                           !.trace = @ \o CacheCheckStates(aCall.opts, cached)]
    /\ UNCHANGED <<aStore, aPrev>>

\* getSpotifyArtistData, getLastFmArtistData, getGeniusArtistData: getOrSet
\* over the provider's call.  A failing Spotify or Last.fm call rejects and
\* stores nothing; GeniusClient.findArtist catches its failure and yields null,
\* which getOrSet stores.
AFetch(p) ==
    /\ aCall.pc = "base"
    /\ p \in BaseProviders \ aCall.fetched
    /\ \E readFails \in BOOLEAN, writeFails \in BOOLEAN :
          LET k == ProviderKey(p)
              value == FactoryValue(p, aCall.down)
              fanOut == IF aCall.fetched = {} THEN <<"FAN_OUT">> ELSE << >>
          IN
          IF IsHit(AGet(k, readFails))
          THEN /\ aCall' = [aCall EXCEPT !.fetched = @ \cup {p}, !.trace = @ \o fanOut]
               /\ UNCHANGED aStore
          ELSE /\ aCall' = [aCall EXCEPT !.fetched = @ \cup {p}, !.called = @ \cup {p},
                                          !.trace = @ \o fanOut]
               /\ IF p \in aCall.down /\ p # "genius"
                  THEN UNCHANGED aStore
                  ELSE aStore' = ASet(k, value, writeFails)
    /\ UNCHANGED aPrev

\* const youtubeMetrics = await this.analyzeYouTubeMetrics(artistName): getOrSet
\* over youtube.searchTypeBeat, awaited directly; its rejection reaches the catch
\* of analyzeArtist, which throws 'Artist analysis failed'.
AYouTube ==
    /\ aCall.pc = "base"
    /\ aCall.fetched = BaseProviders
    /\ \E readFails \in BOOLEAN, writeFails \in BOOLEAN :
          LET k == ProviderKey("youtube") IN
          IF IsHit(AGet(k, readFails))
          THEN /\ aCall' = [aCall EXCEPT !.pc = "store",
                                          !.trace = @ \o AnalysisStates(TRUE)]
               /\ UNCHANGED aStore
          ELSE IF "youtube" \in aCall.down
          THEN /\ aCall' = [aCall EXCEPT !.pc = "threw", !.called = @ \cup {"youtube"},
                                          !.trace = @ \o AnalysisStates(FALSE)]
               /\ UNCHANGED aStore
          ELSE /\ aCall' = [aCall EXCEPT !.pc = "store", !.called = @ \cup {"youtube"},
                                          !.trace = @ \o AnalysisStates(TRUE)]
               /\ aStore' = ASet(k, "data", writeFails)
    /\ UNCHANGED aPrev

\* await this.cache.set(cacheKey, result, undefined, 'artist_analysis'); return result
AStore ==
    /\ aCall.pc = "store"
    /\ \E writeFails \in BOOLEAN :
          aStore' = ASet(AnalysisKey(aCall.opts), FreshResult.data, writeFails)
    /\ aCall' = [aCall EXCEPT !.pc = "done", !.result = FreshResult,
                               !.trace = @ \o StoreStates]
    /\ UNCHANGED aPrev

\* The call has returned or thrown; the caller may call again.  aPrev keeps
\* what the next call's caller can rely on: whether the call returned a result,
\* its options, and whether the entry under its key was in the store then.
AReturn ==
    /\ aCall.pc \in {"done", "threw"}
    /\ aPrev' = [completed |-> aCall.pc = "done", opts |-> aCall.opts,
                 stored |-> aStore[AnalysisKey(aCall.opts)] # Absent,
                 changed |-> FALSE]
    /\ aCall' = ACallIdle
    /\ UNCHANGED aStore

\* An entry's time-to-live runs out (get finds it expired and deletes it, or
\* the server removes it): the key is absent from then on.
AExpire(k) ==
    /\ aStore[k] # Absent
    /\ aStore' = [aStore EXCEPT ![k] = Absent]
    /\ aPrev' = [aPrev EXCEPT !.changed = TRUE]
    /\ UNCHANGED aCall

-----------------------------------------------------------------------------
(***************************************************************************)
(* POST /api/research/suggestions (src/unnamed/part_004) over the          *)
(* orchestrator that createAPIOrchestrator() of                            *)
(* src/src/app/api/research/suggestions/utils.ts builds.  That             *)
(* orchestrator's cache client is never connected (createRedisClient       *)
(* constructs it with lazyConnect and nobody calls connect), so each of    *)
(* its reads is a miss and each of its writes stores nothing.              *)
(***************************************************************************)

\* Largest number of similar artists one provider returns.
MaxSimilar == 2

\* body.limit as sent: 0 stands for a body without limit.
LimitInputs == {0, 1, 2, 12}

\* body.artist: two artist names, and no usable name; "malformed" is a body
\* request.json() cannot parse.
ArtistInputs == {"Drake", "Other"}
BodyKinds == {"valid", "noArtist", "malformed"}

CandidateNames == {"x", "y"}

\* similarity_score of a similar artist, in hundredths: the providers are
\* asked for minSimilarity 0.2, the orchestrator keeps 0.3 and more.
SimScores == {25, 80}

\* YouTube metrics, scores in hundredths.
MetricSamples ==
    { [volume |-> 20000, competition |-> 50, trend |-> 50, saturation |-> 30],
      [volume |-> 400,   competition |-> 50, trend |-> 50, saturation |-> 30],
      [volume |-> 800,   competition |-> 0,  trend |-> 0,  saturation |-> 0] }

Min(a, b) == IF a < b THEN a ELSE b
Max(a, b) == IF a > b THEN a ELSE b

\* Array.prototype.slice(0, n) for n >= 0; n is truncated by the caller.
Slice(s, n) == SubSeq(s, 1, Min(n, Len(s)))

\* const limit = Math.min(body.limit || 3, 10)
RequestLimit(raw) == Min(IF raw = 0 THEN 3 ELSE raw, 10)

\* calculateCompositeScore as POST calls it, in units of 1e-7 of a point.  POST
\* passes volume: min(v/1000, 10), competition: c*10, trend: t*10,
\* similarity: s*10, saturation: (1 - sat)*10, and calculateCompositeScore
\* normalizes each once more (/1000 capped at 10, *10, *10, *10, (1 - x)*10)
\* before weighting 0.3, 0.25, 0.2, 0.15, 0.1 and clamping to [0, 10].
ScoreUnit == 10000000
CompositeScore(m, sim) ==
    LET raw == 3 * Min(m.volume, 10000)
               + 2500000 * m.competition
               + 2000000 * m.trend
               + 1500000 * sim
               + 1000000 * (m.saturation - 90)
    IN Max(0, Min(10 * ScoreUnit, raw))

\* if (finalScore >= 5.0 && youtubeMetrics.volume > 500)
PassesQuality(m, sim) == CompositeScore(m, sim) >= 5 * ScoreUnit /\ m.volume > 500

\* score: Math.round(finalScore * 10) / 10, in tenths.
RoundedScore(m, sim) == (CompositeScore(m, sim) + (ScoreUnit \div 20)) \div (ScoreUnit \div 10)

\* generateMockSuggestions(artistName, limit): the static table's entry for
\* the artist, or the default entries; scores in tenths.
MockTable(artist) ==
    IF artist = "Drake" THEN <<87, 82, 79>> ELSE <<75, 72>>

GenerateMockSuggestions(artist, limit) ==
    Slice([i \in 1..Len(MockTable(artist)) |->
              [origin |-> "static", score |-> MockTable(artist)[i]]], limit)

\* The lists a provider can return for the similar artists: at most MaxSimilar
\* artists, no name twice.
SimilarArtist == [name : CandidateNames, score : SimScores]
SimilarLists ==
    UNION { { s \in [1..n -> SimilarArtist] :
                \A i \in 1..n : \A j \in 1..n : i < j => s[i].name # s[j].name }
            : n \in 0..MaxSimilar }

\* Array.prototype.sort((a, b) => b.score - a.score): stable, descending.
RECURSIVE InsertByScore(_, _)
InsertByScore(sorted, e) ==
    IF sorted = <<>> THEN <<e>>
    ELSE IF Head(sorted).score >= e.score
         THEN <<Head(sorted)>> \o InsertByScore(Tail(sorted), e)
         ELSE <<e>> \o sorted

RECURSIVE SortByScore(_)
SortByScore(s) ==
    IF s = <<>> THEN <<>>
    ELSE InsertByScore(SortByScore(SubSeq(s, 1, Len(s) - 1)), s[Len(s)])

\* findSimilarArtists, steps 3 and 4: the candidates of both lists merged by
\* name, Spotify's first; style_compatibility is the provider's score for a
\* candidate of one provider and the weighted mean (0.6, 0.4) plus 0.1, capped
\* at 1, for a candidate of both; candidates under minSimilarity are dropped,
\* the rest sorted and cut to the limit.
MergeCandidates(spotify, lastfm, minSimilarity, limit) ==
    LET inSpotify(n) == \E i \in 1..Len(spotify) : spotify[i].name = n
        lastfmOf(n) == CHOOSE i \in 1..Len(lastfm) : lastfm[i].name = n
        inLastfm(n) == \E i \in 1..Len(lastfm) : lastfm[i].name = n
        fromSpotify ==
            [i \in 1..Len(spotify) |->
                LET a == spotify[i] IN
                IF inLastfm(a.name)
                THEN [name |-> a.name, sources |-> {"spotify", "lastfm"},
                      score |-> Min(100, (60 * a.score + 40 * lastfm[lastfmOf(a.name)].score) \div 100 + 10)]
                ELSE [name |-> a.name, sources |-> {"spotify"}, score |-> a.score]]
        onlyLastfm == SelectSeq(lastfm, LAMBDA a : ~inSpotify(a.name))
        fromLastfm ==
            [i \in 1..Len(onlyLastfm) |->
                [name |-> onlyLastfm[i].name, sources |-> {"lastfm"},
                 score |-> onlyLastfm[i].score]]
        kept == SelectSeq(fromSpotify \o fromLastfm, LAMBDA c : c.score >= minSimilarity)
    IN Slice(SortByScore(kept), limit)

PostIdle ==
    [pc |-> "idle", kind |-> "valid", artist |-> "Other", limit |-> 3,
     down |-> {}, known |-> {}, called |-> {}, cands |-> <<>>, total |-> 0,
     suggestions |-> <<>>, usedFallback |-> FALSE, path |-> "none"]

NoResponse ==
    [status |-> 0, success |-> FALSE, fallback_used |-> FALSE, suggestions |-> <<>>]

\* catch (apiError) { usedFallback = true;
\*   suggestions = generateMockSuggestions(body.artist, limit); totalCandidates = 0 }
OnApiError_Unflagged(st) ==
    [st EXCEPT !.suggestions = GenerateMockSuggestions(st.artist, st.limit),
               !.total = 0, !.cands = <<>>, !.path = "apiError", !.pc = "finish"]
OnApiError(st) ==
    [st EXCEPT !.usedFallback = TRUE,
               !.suggestions = GenerateMockSuggestions(st.artist, st.limit),
               !.total = 0, !.cands = <<>>, !.path = "apiError", !.pc = "finish"]

\* if (suggestions.length === 0) {
\*   suggestions = generateMockSuggestions(body.artist, limit); usedFallback = true }
OnNoSuggestions_Unflagged(st) ==
    IF Len(st.suggestions) = 0
    THEN [st EXCEPT !.suggestions = GenerateMockSuggestions(st.artist, st.limit)]
    ELSE st
OnNoSuggestions(st) ==
    IF Len(st.suggestions) = 0
    THEN [st EXCEPT !.suggestions = GenerateMockSuggestions(st.artist, st.limit),
                    !.usedFallback = TRUE]
    ELSE st

\* The success response: suggestions sorted by score and cut to the limit,
\* metadata.fallback_used: usedFallback.
SuccessResponse(st) ==
    [status |-> 200, success |-> TRUE, fallback_used |-> st.usedFallback,
     suggestions |-> Slice(SortByScore(st.suggestions), st.limit)]

\* The emergency response of the outer catch.
EmergencyResponse_Unflagged(st) ==
    [status |-> 200, success |-> TRUE, fallback_used |-> FALSE,
     suggestions |-> GenerateMockSuggestions(st.artist, st.limit)]
EmergencyResponse(st) ==
    [status |-> 200, success |-> TRUE, fallback_used |-> TRUE,
     suggestions |-> GenerateMockSuggestions(st.artist, st.limit)]

ErrorResponse(status) ==
    [status |-> status, success |-> FALSE, fallback_used |-> FALSE, suggestions |-> <<>>]

\* POST receives a request.  down: the providers whose every call fails or
\* times out while the request is served; known: the providers that know the
\* artist.  A body that cannot be parsed ends in the outermost catch (500), a
\* body without a usable artist in the validation error (400).
PostReceive(kind, artist, rawLimit, down, known) ==
    /\ post.pc = "idle"
    /\ LET st == [PostIdle EXCEPT !.kind = kind, !.artist = artist,
                                  !.limit = RequestLimit(rawLimit),
                                  !.down = down, !.known = known]
       IN
       IF kind = "malformed"
       THEN /\ post' = [st EXCEPT !.pc = "sent"]
            /\ pResp' = ErrorResponse(500)
       ELSE IF kind = "noArtist"
       THEN /\ post' = [st EXCEPT !.pc = "sent"]
            /\ pResp' = ErrorResponse(400)
       ELSE /\ post' = [st EXCEPT !.pc = "create"]
            /\ pResp' = NoResponse

\* const { createAPIOrchestrator } = await import(...); createAPIOrchestrator():
\* when it throws, the outer catch answers with the emergency response.
PostCreate ==
    /\ post.pc = "create"
    /\ \E throws \in BOOLEAN :
          IF throws
          THEN /\ post' = [post EXCEPT !.pc = "sent", !.path = "emergency"]
               /\ pResp' = EmergencyResponse(post)
          ELSE /\ post' = [post EXCEPT !.pc = "analyze"]
               /\ UNCHANGED pResp

\* findSimilarArtists, step 1: analyzeArtist(artistName).  The three searches
\* run under Promise.allSettled; the main artist is taken from the first of
\* Spotify, Last.fm, Genius that answered with the artist.  Without one,
\* analyzeArtist returns null and findSimilarArtists throws, which POST catches.
\* With one, the enrichment calls (YouTube, Genius, Last.fm) run under
\* Promise.allSettled and try/catch.
PostAnalyzeMain ==
    /\ post.pc = "analyze"
    /\ LET answered == (BaseProviders \ post.down) \cap post.known IN
       IF answered = {}
       THEN post' = OnApiError([post EXCEPT !.called = BaseProviders])
       ELSE post' = [post EXCEPT !.pc = "similar", !.called = Providers]
    /\ UNCHANGED pResp

\* findSimilarArtists, steps 2 to 4, called with limit: limit * 2 and
\* minSimilarity: 0.3; POST then walks candidates.slice(0, limit * 1.5).
PostFindSimilar ==
    /\ post.pc = "similar"
    /\ \E spotify \in SimilarLists, lastfm \in SimilarLists :
          /\ "spotify" \in post.down => spotify = <<>>
          /\ "lastfm" \in post.down => lastfm = <<>>
          /\ LET candidates == MergeCandidates(spotify, lastfm, 30, post.limit * 2) IN
             post' = [post EXCEPT !.pc = "candidates",
                                  !.total = Len(candidates),
                                  !.cands = Slice(candidates, (post.limit * 3) \div 2)]
    /\ UNCHANGED pResp

\* One round of the loop over the candidates: calculateYouTubeMetrics raced
\* against the 10 s timeout; a failure or the timeout skips the candidate; a
\* candidate that passes the quality filter becomes a suggestion.
PostAnalyzeCandidate ==
    /\ post.pc = "candidates"
    /\ post.cands # <<>>
    /\ LET c == Head(post.cands) IN
       \/ /\ "youtube" \notin post.down
          /\ \E m \in MetricSamples :
                post' = [post EXCEPT
                           !.cands = Tail(@),
                           !.suggestions =
                               IF PassesQuality(m, c.score)
                               THEN Append(@, [origin |-> "provider",
                                               score |-> RoundedScore(m, c.score)])
                               ELSE @]
       \/ post' = [post EXCEPT !.cands = Tail(@)]
    /\ UNCHANGED pResp

\* After the loop: the fallback when no suggestion is left, the sort, the cut
\* to the limit and the success response.
PostFinish ==
    /\ \/ post.pc = "finish"
       \/ post.pc = "candidates" /\ post.cands = <<>>
    /\ LET st == OnNoSuggestions([post EXCEPT
                     !.path = IF @ = "none" THEN
                                 IF Len(post.suggestions) = 0 THEN "noneValid" ELSE "provider"
                              ELSE @])
       IN /\ post' = [st EXCEPT !.pc = "sent"]
          /\ pResp' = SuccessResponse(st)

\* The response is sent; the handler serves the next request.
PostDone ==
    /\ post.pc = "sent"
    /\ post' = PostIdle
    /\ pResp' = NoResponse

-----------------------------------------------------------------------------
(***************************************************************************)
(* YouTubeClient (src/src/lib/apis/youtube-client.ts)                      *)
(*                                                                         *)
(* searchVideos sends GET /search and then, through getVideoDetails, GET   *)
(* /videos for the ids found.  Each request passes the request interceptor *)
(* first: checkRateLimit compares quotaUsed with the daily limit and then  *)
(* sleeps 100 ms.  The cost of a request is added to quotaUsed after its   *)
(* response arrived.  Several searchVideos calls may be suspended at their *)
(* awaits at the same time.                                                *)
(***************************************************************************)

MaxYtCalls == 2
YtCalls == 1 .. MaxYtCalls

\* externalAPIs.youtube.quotaLimitDaily: read from YOUTUBE_QUOTA_LIMIT_DAILY
\* (10000 when unset); the model runs the client with a small daily limit.
DailyQuotaLimit == 250

SearchCostUnits == 100
VideoCostUnits == 1
MaxResults == 50

\* How many items a /search response may carry.
VideoCounts == {0, 1, MaxResults}

NoError == "none"
QuotaReached == "Daily YouTube API quota limit reached"
SearchFailed(msg) == <<"YouTube search failed", msg>>

\* budgetShort records, for the request the call is about to send, whether
\* the budget left at the interceptor's check was smaller than its cost.
YtIdle == [pc |-> "idle", videos |-> 0, budgetShort |-> FALSE, error |-> NoError]

\* The units a request costs: a search, or the details of n videos.
RequestCost(pc, n) ==
    IF pc = "searchCheck" THEN SearchCostUnits ELSE n * VideoCostUnits

\* checkRateLimit's test.
QuotaExhausted(used) == used >= DailyQuotaLimit

\* searchVideos(params) is called: client.get('/search') enters the
\* request interceptor.
YtSearch(c) ==
    /\ yt[c].pc = "idle"
    /\ yt' = [yt EXCEPT ![c].pc = "searchCheck"]
    /\ UNCHANGED ytQuotaUsed

\* The request interceptor runs checkRateLimit.  It throws when the quota
\* is used up: searchVideos rethrows it wrapped, getVideoDetails catches it
\* and returns an empty response.  Otherwise it starts the 100 ms sleep.
YtCheckRateLimit(c) ==
    /\ yt[c].pc \in {"searchCheck", "detailsCheck"}
    /\ LET cost == RequestCost(yt[c].pc, yt[c].videos)
           short == DailyQuotaLimit - ytQuotaUsed < cost
       IN  IF QuotaExhausted(ytQuotaUsed)
           THEN IF yt[c].pc = "searchCheck"
                THEN yt' = [yt EXCEPT ![c].pc = "failed",
                                      ![c].error = SearchFailed(QuotaReached)]
                ELSE yt' = [yt EXCEPT ![c].pc = "done"]
           ELSE yt' = [yt EXCEPT
                    ![c].pc = IF yt[c].pc = "searchCheck"
                              THEN "searchWait" ELSE "detailsWait",
                    ![c].budgetShort = short]
    /\ UNCHANGED ytQuotaUsed

\* The sleep is over: the interceptor returns the config and the request is
\* sent to the service.
YtSend(c) ==
    /\ yt[c].pc \in {"searchWait", "detailsWait"}
    /\ yt' = [yt EXCEPT ![c].pc = IF yt[c].pc = "searchWait"
                                  THEN "searchSent" ELSE "detailsSent"]
    /\ UNCHANGED ytQuotaUsed

\* The /search response: n items.  The search's cost is accounted, then
\* getVideoDetails is called, which sends nothing for an empty id list.
YtSearchResponse(c, n) ==
    /\ yt[c].pc = "searchSent"
    /\ ytQuotaUsed' = ytQuotaUsed + SearchCostUnits
    /\ yt' = [yt EXCEPT ![c].pc = IF n = 0 THEN "done" ELSE "detailsCheck",
                        ![c].videos = n,
                        ![c].budgetShort = FALSE]

\* The /search request fails (timeout, 4xx, 5xx): nothing is accounted and
\* searchVideos throws.
YtSearchError(c) ==
    /\ yt[c].pc = "searchSent"
    /\ yt' = [yt EXCEPT ![c].pc = "failed",
                        ![c].error = SearchFailed("request failed")]
    /\ UNCHANGED ytQuotaUsed

\* The /videos response; ok = FALSE is a failed request, which
\* getVideoDetails swallows without accounting anything.
YtDetailsResponse(c, ok) ==
    /\ yt[c].pc = "detailsSent"
    /\ ytQuotaUsed' = IF ok THEN ytQuotaUsed + yt[c].videos * VideoCostUnits
                            ELSE ytQuotaUsed
    /\ yt' = [yt EXCEPT ![c].pc = "done"]

\* searchVideos has returned or thrown; the caller may call again.
YtSettle(c) ==
    /\ yt[c].pc \in {"done", "failed"}
    /\ yt' = [yt EXCEPT ![c] = YtIdle]
    /\ UNCHANGED ytQuotaUsed

\* resetQuota(), "to be called every day".
YtResetQuota ==
    /\ ytQuotaUsed > 0
    /\ ytQuotaUsed' = 0
    /\ UNCHANGED yt

-----------------------------------------------------------------------------
(***************************************************************************)
(* SpotifyClient (src/src/lib/apis/spotify-client.ts) and the SpotifyClient *)
(* of src/unnamed/part_007, which the suggestions orchestrator uses.        *)
(*                                                                         *)
(* Every API request passes the request interceptor (ensureValidToken,     *)
(* then, in spotify-client.ts, checkRateLimit) before it is sent with the  *)
(* Authorization header; the response interceptor handles 401 and 429.     *)
(* Time is counted in ticks of one minute, and every event falls on a      *)
(* tick.  The token's expiry and the time of the last request are kept     *)
(* relative to the current time.                                           *)
(***************************************************************************)

MaxSpRequests == 2
SpRequests == 1 .. MaxSpRequests

SpImpls == {"SpotifyClient", "SpotifyClientReal"}
Unbuilt == "unbuilt"

\* The rate window of checkRateLimit (60000 ms), in seconds.
RateWindowSeconds == 60

\* One tick of the model's clock.
SecondsPerTick == RateWindowSeconds

\* externalAPIs.spotify.tokenExpiryBuffer, in seconds.
TokenExpiryBuffer == 300

\* The margin authenticate() of part_007 subtracts from the expiry (60000 ms).
RealExpiryMarginSeconds == 60

\* externalAPIs.spotify.requestsPerMinute: read from
\* SPOTIFY_REQUESTS_PER_MINUTE (100 when unset).
RequestsPerMinute == 2

\* expires_in of the token response, in seconds.
ExpiresInChoices == {360}

\* The HTTP statuses an API request may be answered with.
SpStatuses == {200, 401, 429, 500}

NoToken == "null"
HeldToken == "token"

\* ensureValidToken: the token must be renewed.  spotify-client.ts keeps the
\* buffer before the expiry; part_007 compares with the stored expiry only.
NeedsRefresh(impl, token, left) ==
    \/ token = NoToken
    \/ IF impl = "SpotifyClient"
       THEN left <= TokenExpiryBuffer \div SecondsPerTick
       ELSE left <= 0

\* tokenExpiresAt after a token response, as ticks from now.
ExpiryAfterRefresh(impl, expiresIn) ==
    IF impl = "SpotifyClient"
    THEN expiresIn \div SecondsPerTick
    ELSE (expiresIn - RealExpiryMarginSeconds) \div SecondsPerTick

\* The state of the credential a request is sent with: absent, inside the
\* 300 s before its expiry, or valid beyond that.
TokenState(token, left) ==
    IF token = NoToken THEN "absent"
    ELSE IF left <= TokenExpiryBuffer \div SecondsPerTick THEN "margin"
    ELSE "valid"

\* _retry is the flag the 401 handler sets on the request's config; via is
\* the caller of the refresh the request awaits; resent tells that the
\* request was sent again after an error response; sends counts the requests
\* the caller has sent since the last tick of the clock, up to the limit.
SpIdle == [pc |-> "idle", retry |-> FALSE, via |-> "request", resent |-> FALSE,
           slept |-> 0, sentWith |-> "none", status |-> 0, sends |-> 0]

\* The continuations that are ready to run: a step of the interceptor that
\* no timer and no network answer stands before, or the return to the
\* caller.  The event loop runs them before it delivers a network answer
\* or a timer.
SpReady(r) == sp[r].pc \in {"ensure", "rate", "done", "failed"}

SpQuiescent == \A r \in SpRequests : ~SpReady(r)

\* new SpotifyClient(...): no token, no request counted.
SpNew(impl) ==
    /\ spImpl = Unbuilt
    /\ spImpl' = impl
    /\ UNCHANGED <<spToken, spLeft, spCount, spSince, sp>>

\* An API method calls client.get(...): the request enters the request
\* interceptor.
SpRequest(r) ==
    /\ spImpl # Unbuilt
    /\ sp[r].pc = "idle"
    /\ sp' = [sp EXCEPT ![r].pc = "ensure"]
    /\ UNCHANGED <<spImpl, spToken, spLeft, spCount, spSince>>

\* The request leaves the interceptor: the Authorization header is set from
\* accessToken as it is now, and the request is sent.
SendWith(rec, token, left) ==
    [rec EXCEPT !.pc = "sent", !.sentWith = TokenState(token, left), !.slept = 0,
                !.sends = IF @ >= RequestsPerMinute THEN @ ELSE @ + 1]

\* After ensureValidToken: spotify-client.ts goes on to checkRateLimit,
\* part_007 sends.
AfterEnsure(rec, token, left) ==
    IF spImpl = "SpotifyClient"
    THEN [rec EXCEPT !.pc = "rate"]
    ELSE SendWith(rec, token, left)

\* ensureValidToken in the request interceptor: it starts a token request
\* when the token is absent or too close to its expiry.
SpEnsureValidToken(r) ==
    /\ sp[r].pc = "ensure"
    /\ IF NeedsRefresh(spImpl, spToken, spLeft)
       THEN sp' = [sp EXCEPT ![r].pc = "refreshing", ![r].via = "request"]
       ELSE sp' = [sp EXCEPT ![r] = AfterEnsure(sp[r], spToken, spLeft)]
    /\ UNCHANGED <<spImpl, spToken, spLeft, spCount, spSince>>

\* The token endpoint answers.  On success the token and its expiry are
\* stored and the request goes on: a request in the interceptor continues,
\* a request in the 401 handler is handed to client.request again.  On
\* failure 'Spotify authentication failed' is thrown.
SpRefreshResponse(r, ok, expiresIn) ==
    /\ sp[r].pc = "refreshing"
    /\ SpQuiescent
    /\ IF ok
       THEN LET left == ExpiryAfterRefresh(spImpl, expiresIn)
            IN  /\ spToken' = HeldToken
                /\ spLeft' = left
                /\ sp' = [sp EXCEPT ![r] =
                            IF sp[r].via = "request"
                            THEN AfterEnsure(sp[r], HeldToken, left)
                            ELSE [sp[r] EXCEPT !.pc = "ensure",
                                               !.via = "request",
                                               !.resent = TRUE]]
       ELSE /\ sp' = [sp EXCEPT ![r].pc = "failed"]
            /\ UNCHANGED <<spToken, spLeft>>
    /\ UNCHANGED <<spImpl, spCount, spSince>>

\* requestCount saturates in the model: the code only compares it with the
\* limit.
SaturateCount(n) ==
    IF n > RequestsPerMinute THEN RequestsPerMinute + 1 ELSE n

\* checkRateLimit (spotify-client.ts): the counter is reset when the last
\* request is more than a minute old; at the limit the request sleeps for
\* the rest of the minute; otherwise it is counted and sent.
SpCheckRateLimit(r) ==
    /\ sp[r].pc = "rate"
    /\ LET sinceSeconds == spSince * SecondsPerTick
           count == IF sinceSeconds > RateWindowSeconds THEN 0 ELSE spCount
           waitTime == RateWindowSeconds - sinceSeconds
       IN  IF count >= RequestsPerMinute /\ waitTime > 0
           THEN /\ sp' = [sp EXCEPT ![r].pc = "rateWait", ![r].slept = 0]
                /\ spCount' = count
                /\ UNCHANGED spSince
           ELSE /\ sp' = [sp EXCEPT ![r] = SendWith(sp[r], spToken, spLeft)]
                /\ spCount' = SaturateCount(count + 1)
                /\ spSince' = 0
    /\ UNCHANGED <<spImpl, spToken, spLeft>>

\* The sleep of checkRateLimit is over: the counter restarts, lastRequestTime
\* becomes the time read before the sleep, and the request is sent.
SpRateWake(r) ==
    /\ sp[r].pc = "rateWait"
    /\ SpQuiescent
    /\ sp[r].slept * SecondsPerTick >= RateWindowSeconds
    /\ sp' = [sp EXCEPT ![r] = SendWith(sp[r], spToken, spLeft)]
    /\ spCount' = 1
    /\ spSince' = sp[r].slept
    /\ UNCHANGED <<spImpl, spToken, spLeft>>

\* The response interceptor of spotify-client.ts.
\*   401: the token is dropped; a request not yet retried is marked, a new
\*        token is awaited (the token is absent, so the token request starts
\*        at once) and the request is sent again; a retried request falls
\*        through and its error is thrown.
\*   429: the request sleeps retry-after seconds and is sent again.
\*   other errors are thrown.
ClientResponse(r, status) ==
    CASE status = 200 ->
            /\ sp' = [sp EXCEPT ![r].pc = "done", ![r].status = status]
            /\ UNCHANGED <<spToken, spLeft>>
      [] status = 401 ->
            /\ spToken' = NoToken
            /\ spLeft' = 0
            /\ IF ~sp[r].retry
               THEN sp' = [sp EXCEPT ![r].pc = "refreshing",
                                     ![r].via = "on401",
                                     ![r].retry = TRUE,
                                     ![r].status = status]
               ELSE sp' = [sp EXCEPT ![r].pc = "failed", ![r].status = status]
      [] status = 429 ->
            /\ sp' = [sp EXCEPT ![r].pc = "retryAfter", ![r].status = status]
            /\ UNCHANGED <<spToken, spLeft>>
      [] OTHER ->
            /\ sp' = [sp EXCEPT ![r].pc = "failed", ![r].status = status]
            /\ UNCHANGED <<spToken, spLeft>>

\* The response interceptor of part_007: 401 drops the token and throws
\* 'Spotify authentication failed'; 429 and other errors are thrown.  (The
\* counter trackRequest keeps for successful responses only feeds a
\* warning; it is left out.)
RealResponse(r, status) ==
    /\ sp' = [sp EXCEPT ![r].pc = IF status = 200 THEN "done" ELSE "failed",
                        ![r].status = status]
    /\ IF status = 401
       THEN spToken' = NoToken /\ spLeft' = 0
       ELSE UNCHANGED <<spToken, spLeft>>

\* The API answers a request.
SpResponse(r, status) ==
    /\ sp[r].pc = "sent"
    /\ SpQuiescent
    /\ IF spImpl = "SpotifyClient"
       THEN ClientResponse(r, status)
       ELSE RealResponse(r, status)
    /\ UNCHANGED <<spImpl, spCount, spSince>>

\* The retry-after sleep is over: client.request(error.config) sends the
\* request through the interceptors again.
SpRetryAfter(r) ==
    /\ sp[r].pc = "retryAfter"
    /\ SpQuiescent
    /\ sp' = [sp EXCEPT ![r].pc = "ensure", ![r].resent = TRUE]
    /\ UNCHANGED <<spImpl, spToken, spLeft, spCount, spSince>>

\* The API method has returned or thrown.
SpSettle(r) ==
    /\ sp[r].pc \in {"done", "failed"}
    /\ sp' = [sp EXCEPT ![r] = [SpIdle EXCEPT !.sends = sp[r].sends]]
    /\ UNCHANGED <<spImpl, spToken, spLeft, spCount, spSince>>

\* A minute passes.  Time passes only while every request is suspended on a
\* timer or on the network (or is idle), and a sleeping checkRateLimit
\* wakes when its timer is due.
SpTick ==
    /\ spImpl # Unbuilt
    /\ SpQuiescent
    /\ \A r \in SpRequests :
          sp[r].pc = "rateWait" =>
              sp[r].slept * SecondsPerTick < RateWindowSeconds
    /\ spLeft' = IF spLeft > 0 THEN spLeft - 1 ELSE 0
    /\ spSince' = IF spSince * SecondsPerTick > RateWindowSeconds
                  THEN spSince ELSE spSince + 1
    /\ sp' = [r \in SpRequests |->
                IF sp[r].pc = "rateWait"
                THEN [sp[r] EXCEPT !.slept = @ + 1, !.sends = 0]
                ELSE [sp[r] EXCEPT !.sends = 0]]
    /\ UNCHANGED <<spImpl, spToken, spCount>>

-----------------------------------------------------------------------------
(***************************************************************************)
(* GeniusClient (src/unnamed/part_005, lines 776-1150) under               *)
(* APIOrchestrator.analyzeArtist.                                          *)
(*                                                                         *)
(* getGeniusArtistData calls findArtist, which sends GET /search and, for  *)
(* an artist found, GET /artists/{id} and GET /artists/{id}/songs together *)
(* (getArtist).  Each request passes checkRateLimit in the request         *)
(* interceptor, and its error response passes the response interceptor.    *)
(* The other providers' calls of the same analysis are given by their      *)
(* outcome.                                                                *)
(***************************************************************************)

MaxGnCount == 4

GnRequestNames == {"search", "artist", "songs"}

\* The HTTP statuses a Genius request may be answered with.
GnStatuses == {200, 401, 403, 429, 500, 503}

\* What a successful /search response holds: hits, no hit, or a body whose
\* meta.status is not 200.
SearchBodies == {"hits", "empty", "badMeta"}

TemporarilyUnavailable == "Genius API temporarily unavailable"
AuthenticationFailed == "Genius API authentication failed"
RequestFailed == "request failed"

\* Whether each other provider's call of the analysis succeeds.
OtherOutcomes == [spotify : BOOLEAN, lastfm : BOOLEAN, youtube : BOOLEAN]

AllAnswer == [spotify |-> TRUE, lastfm |-> TRUE, youtube |-> TRUE]

\* counted tells that checkRateLimit has incremented requestCount for this
\* request.
GnNoRequest == [pc |-> "none", status |-> 0, error |-> NoError, counted |-> FALSE]

NoAnalysis == [status |-> "none", spotify |-> Null, lastfm |-> Null, genius |-> Null]

GnIdle == [pc |-> "idle", reqs |-> [q \in GnRequestNames |-> GnNoRequest],
           others |-> AllAnswer, geniusData |-> Null, analysis |-> NoAnalysis]

\* The response interceptor's test for Cloudflare's block.
IsEdgeBlock_403Only(status) == status = 403
IsEdgeBlock(status) == status \in {403, 503}

\* requestCount, capped in the model.
GnCounted(n) == IF n < MaxGnCount THEN n + 1 ELSE MaxGnCount

GnSettled(req) == req.pc \in {"ok", "error"}

\* analyzeArtist(artistName) runs its provider calls; for Genius,
\* getGeniusArtistData misses the cache and findArtist calls search, whose
\* client.get('/search') enters the request interceptor.
GnAnalyze(others) ==
    /\ gn.pc = "idle"
    /\ gn' = [GnIdle EXCEPT !.pc = "search", !.others = others,
                            !.reqs["search"].pc = "rate"]
    /\ UNCHANGED gnCount

\* checkRateLimit: a request less than 500 ms after the last one (recent)
\* sleeps first; then the request is counted and sent.
GnCheckRateLimit(q, recent) ==
    /\ gn.reqs[q].pc = "rate"
    /\ IF recent
       THEN /\ gn' = [gn EXCEPT !.reqs[q].pc = "sleep"]
            /\ UNCHANGED gnCount
       ELSE /\ gn' = [gn EXCEPT !.reqs[q].pc = "sent", !.reqs[q].counted = TRUE]
            /\ gnCount' = GnCounted(gnCount)

\* The sleep of checkRateLimit is over.
GnRateWake(q) ==
    /\ gn.reqs[q].pc = "sleep"
    /\ gn' = [gn EXCEPT !.reqs[q].pc = "sent", !.reqs[q].counted = TRUE]
    /\ gnCount' = GnCounted(gnCount)

\* The response interceptor: 401 throws 'Genius API authentication failed',
\* 429 sleeps 2 s and sends the request again, 403 and 503 throw 'Genius API
\* temporarily unavailable', any other error is rethrown.
GnResponse(q, status) ==
    /\ gn.reqs[q].pc = "sent"
    /\ gn' = [gn EXCEPT
            !.reqs[q].status = status,
            !.reqs[q].pc = IF status = 200 THEN "ok"
                           ELSE IF status = 429 THEN "retry429"
                           ELSE "error",
            !.reqs[q].error = IF status = 200 \/ status = 429 THEN NoError
                              ELSE IF status = 401 THEN AuthenticationFailed
                              ELSE IF IsEdgeBlock(status) THEN TemporarilyUnavailable
                              ELSE RequestFailed]
    /\ UNCHANGED gnCount

\* The 2 s are over: client.request(error.config) passes the request
\* interceptor again.
GnRetry429(q) ==
    /\ gn.reqs[q].pc = "retry429"
    /\ gn' = [gn EXCEPT !.reqs[q].pc = "rate"]
    /\ UNCHANGED gnCount

\* search settles and findArtist goes on.  On 'temporarily unavailable'
\* search returns no artists; on any other error, and on a body whose
\* meta.status is not 200, it throws 'Genius search failed', which findArtist
\* catches; in all these cases findArtist returns null.  For an artist found
\* findArtist calls getArtist, which sends its two requests.
GnSearchDone(body) ==
    /\ gn.pc = "search"
    /\ GnSettled(gn.reqs["search"])
    /\ IF gn.reqs["search"].pc = "ok" /\ body = "hits"
       THEN gn' = [gn EXCEPT !.pc = "artist",
                             !.reqs["artist"].pc = "rate",
                             !.reqs["songs"].pc = "rate"]
       ELSE gn' = [gn EXCEPT !.pc = "settled", !.geniusData = Null]
    /\ UNCHANGED gnCount

\* Promise.allSettled of getArtist: without the artist's details it returns
\* null, otherwise the artist's data (with no songs when the songs request
\* failed).
GnGetArtistDone ==
    /\ gn.pc = "artist"
    /\ GnSettled(gn.reqs["artist"])
    /\ GnSettled(gn.reqs["songs"])
    /\ gn' = [gn EXCEPT !.pc = "settled",
                        !.geniusData = IF gn.reqs["artist"].pc = "ok"
                                       THEN "artist" ELSE Null]
    /\ UNCHANGED gnCount

\* analyzeArtist after its provider calls: the three base results come from
\* Promise.allSettled (a rejected one counts as undefined); the YouTube
\* analysis is awaited directly and its failure fails the analysis.
GnComplete ==
    /\ gn.pc = "settled"
    /\ gn' = [gn EXCEPT !.pc = "returned",
            !.analysis =
                IF gn.others.youtube
                THEN [status |-> "completed",
                      spotify |-> IF gn.others.spotify THEN "data" ELSE Null,
                      lastfm |-> IF gn.others.lastfm THEN "data" ELSE Null,
                      genius |-> gn.geniusData]
                ELSE [NoAnalysis EXCEPT !.status = "threw"]]
    /\ UNCHANGED gnCount

\* The analysis has returned or thrown; the next one may start.
GnReturn ==
    /\ gn.pc = "returned"
    /\ gn' = GnIdle
    /\ UNCHANGED gnCount

-----------------------------------------------------------------------------
(***************************************************************************)
(* findSimilarArtists, in the two orchestrators: APIOrchestrator of        *)
(* src/unnamed/part_005 ("APIOrchestrator") and the orchestrator of        *)
(* src/src/app/api/research/suggestions/utils.ts ("utils"), which POST     *)
(* uses.  Both ask Spotify and Last.fm for the artists similar to the main *)
(* artist, merge the two lists in a Map keyed by the lower-cased name,     *)
(* score the candidates, filter, sort and cut.  Similarities are in        *)
(* hundredths.                                                             *)
(***************************************************************************)
FsImpls == {"APIOrchestrator", "utils"}

\* The longest list a provider returns.
MaxListed == 2

\* Names as the providers spell them; two of them differ in letter case only.
FsNames == {"Gunna", "GUNNA", "Lil Baby"}

\* String.prototype.toLowerCase()
ToLowerCase_AsIs(n) == n
ToLowerCase(n) ==
    CASE n = "Gunna" -> "gunna"
      [] n = "GUNNA" -> "gunna"
      [] n = "Lil Baby" -> "lil baby"
      [] n = "Trap" -> "trap"
      [] n = "Jay-Z" -> "jay-z"
      [] n = "JAY-Z" -> "jay-z"
      [] n = "Jay Z" -> "jay z"
      [] n = "Drake" -> "drake"
      [] n = "{\"forceRefresh\":true}" -> "{\"forcerefresh\":true}"
      [] OTHER -> n

\* What the similarity of an artist is computed from, as the provider's data
\* fixes it: score is the provider-side similarity (calculateSpotifySimilarity
\* or similarity_score for Spotify, match for Last.fm), overlap the
\* genre_overlap with the main artist, affinity the sum of style_compatibility
\* and audience_overlap.
FsProfiles ==
    { [score |-> 40, overlap |-> 0, affinity |-> 0],
      [score |-> 80, overlap |-> 50, affinity |-> 100] }

FsArtists ==
    { [name |-> n, score |-> p.score, overlap |-> p.overlap, affinity |-> p.affinity] :
        n \in FsNames, p \in FsProfiles }

\* A provider's list: Spotify deduplicates by id and Last.fm not at all, so
\* a list may hold two artists of the same name.
FsLists == UNION { [1..n -> FsArtists] : n \in 0..MaxListed }

\* How a provider's call settled under Promise.allSettled.
FsOutcomes == { [ok |-> TRUE, list |-> l] : l \in FsLists } \cup { [ok |-> FALSE, list |-> << >>] }

\* options.sources
FsSourceOptions == { {"spotify", "lastfm"}, {"spotify"} }

\* The list the merge loop of a provider iterates over.  utils.ts takes the
\* value of a fulfilled slot.  APIOrchestrator.getRelatedArtists takes
\* value.relatedArtists of Spotify's result and value.similarArtists of
\* Last.fm's; LastFmClient.getSimilarArtists resolves to an array, which has no
\* similarArtists property, so the Last.fm list of a fulfilled call is
\* undefined; a rejected call gives [].
ListToMerge(impl, provider, outcome) ==
    IF impl = "APIOrchestrator" /\ provider = "lastfm" /\ outcome.ok
    THEN [defined |-> FALSE, list |-> << >>]
    ELSE [defined |-> TRUE, list |-> outcome.list]

HasKey(map, k) == \E i \in 1..Len(map) : map[i].key = k
IndexOfKey(map, k) == CHOOSE i \in 1..Len(map) : map[i].key = k

NewCandidate(provider, a, overlap, affinity) ==
    [key |-> ToLowerCase(a.name), name |-> a.name, sources |-> <<provider>>,
     spotify |-> IF provider = "spotify" THEN a.score ELSE 0,
     lastfm |-> IF provider = "lastfm" THEN a.score ELSE 0,
     overlap |-> overlap, affinity |-> affinity]

\* One iteration of a merge loop.  Map.prototype.set on a key the map holds
\* replaces the value and keeps the key's position.
\* APIOrchestrator: a Spotify artist is set unconditionally; a Last.fm artist
\* whose key is present pushes 'lastfm' and becomes lastfmData, else is set
\* (convertLastFmToArtist gives it no genres: genre_overlap 0).
\* utils.ts: an artist whose key is absent is set; one whose key is present
\* updates that provider's similarity and pushes the provider's tag.
MergeArtist(impl, provider, map, a) ==
    LET k == ToLowerCase(a.name) IN
    IF impl = "APIOrchestrator"
    THEN IF provider = "spotify"
         THEN IF HasKey(map, k)
              THEN [map EXCEPT ![IndexOfKey(map, k)] = NewCandidate(provider, a, a.overlap, a.affinity)]
              ELSE Append(map, NewCandidate(provider, a, a.overlap, a.affinity))
         ELSE IF HasKey(map, k)
              THEN [map EXCEPT ![IndexOfKey(map, k)].sources = Append(@, "lastfm"),
                               ![IndexOfKey(map, k)].lastfm = a.score]
              ELSE Append(map, NewCandidate(provider, a, 0, a.affinity))
    ELSE IF HasKey(map, k)
         THEN IF provider = "spotify"
              THEN [map EXCEPT ![IndexOfKey(map, k)].sources = Append(@, "spotify"),
                               ![IndexOfKey(map, k)].spotify = a.score]
              ELSE [map EXCEPT ![IndexOfKey(map, k)].sources = Append(@, "lastfm"),
                               ![IndexOfKey(map, k)].lastfm = a.score]
         ELSE Append(map, NewCandidate(provider, a, a.overlap, a.affinity))

RECURSIVE MergeList(_, _, _, _)
MergeList(impl, provider, map, list) ==
    IF list = << >> THEN map
    ELSE MergeList(impl, provider, MergeArtist(impl, provider, map, Head(list)), Tail(list))

\* The order in which the providers' lists are merged: Spotify's, then
\* Last.fm's, whichever call settled first (Promise.allSettled keeps each
\* result in its promise's slot).
MergeOrder_Arrival(arrived) == arrived
MergeOrder(arrived) == <<"spotify", "lastfm">>

\* Steps 2 and 3: the Map after the merge loops, or the TypeError of
\* undefined.forEach.  A provider outside options.sources is not merged;
\* utils.ts merges a slot only when it is fulfilled.
RECURSIVE MergeAll(_, _, _, _, _)
MergeAll(impl, order, sources, outcomes, acc) ==
    IF order = << >> \/ acc.threw THEN acc
    ELSE LET p == Head(order)
             l == ListToMerge(impl, p, outcomes[p])
         IN
         MergeAll(impl, Tail(order), sources, outcomes,
                  IF p \notin sources THEN acc
                  ELSE IF ~l.defined THEN [threw |-> TRUE, map |-> acc.map]
                  ELSE [threw |-> FALSE, map |-> MergeList(impl, p, acc.map, l.list)])

Includes(tags, t) == \E i \in 1..Len(tags) : tags[i] = t

\* utils.ts step 4: style_compatibility = min(1, composite + bonus), the
\* composite weighting Spotify 0.6 and Last.fm 0.4 over the sources present,
\* the bonus 0.1 when sources.length > 1.
StyleCompatibility(c) ==
    LET spotifyWeight == IF Includes(c.sources, "spotify") THEN 60 ELSE 0
        lastfmWeight == IF Includes(c.sources, "lastfm") THEN 40 ELSE 0
        composite == (c.spotify * spotifyWeight + c.lastfm * lastfmWeight)
                        \div (spotifyWeight + lastfmWeight)
        crossPlatformBonus == IF Len(c.sources) > 1 THEN 10 ELSE 0
    IN Min(100, composite + crossPlatformBonus)

\* The value the candidates are sorted by: scoreB - scoreA over
\* (spotify_similarity + lastfm_similarity + genre_overlap) / 3 in
\* APIOrchestrator (here the sum), style_compatibility in utils.ts.
SortScore(impl, c) ==
    IF impl = "APIOrchestrator" THEN c.spotify + c.lastfm + c.overlap
    ELSE StyleCompatibility(c)

\* The filter: APIOrchestrator keeps a candidate whose average of the five
\* similarities reaches options.minSimilarity (every candidate when the option
\* is unset or 0); utils.ts keeps style_compatibility >= minSimilarity.
PassesSimilarity(impl, c, minSimilarity) ==
    IF impl = "APIOrchestrator"
    THEN minSimilarity = 0
         \/ c.spotify + c.lastfm + c.overlap + c.affinity >= 5 * minSimilarity
    ELSE StyleCompatibility(c) >= minSimilarity

\* options.minSimilarity as the callers pass it: POST passes 0.3 to utils.ts;
\* APIOrchestrator is called without it.
FsMinSimilarity(impl) == IF impl = "APIOrchestrator" THEN 0 ELSE 30

\* .slice(0, options.limit || 20) and .slice(0, limit), limit = 10 by default.
FsLimit(impl) == IF impl = "APIOrchestrator" THEN 20 ELSE 10

\* Steps 3 and 4: score, filter, sort (stable, descending) and cut.
RankCandidates(impl, map) ==
    LET scored == [i \in 1..Len(map) |->
                      [name |-> map[i].name, sources |-> map[i].sources,
                       score |-> SortScore(impl, map[i])]]
        keep(i) == PassesSimilarity(impl, map[i], FsMinSimilarity(impl))
        kept == SelectSeq([i \in 1..Len(map) |-> [c |-> scored[i], keep |-> keep(i)]],
                          LAMBDA x : x.keep)
    IN Slice(SortByScore([i \in 1..Len(kept) |-> kept[i].c]), FsLimit(impl))

FsNoOutcome == [ok |-> FALSE, list |-> << >>]

FsIdle ==
    [pc |-> "idle", impl |-> "utils", sources |-> {},
     outcomes |-> [p \in {"spotify", "lastfm"} |-> FsNoOutcome],
     pending |-> {}, arrived |-> << >>, map |-> << >>, candidates |-> << >>]

\* A caller calls findSimilarArtists(artist, { sources }).  utils.ts calls
\* the providers of options.sources; APIOrchestrator calls both through
\* analyzeArtist(..., { includeRelated: true }) and applies options.sources
\* when merging.  outcomes: how each called provider's call will settle.
FsCall(impl, sources, spotify, lastfm) ==
    /\ fs.pc = "idle"
    /\ impl = "utils" /\ "lastfm" \notin sources => lastfm = FsNoOutcome
    /\ fs' = [FsIdle EXCEPT !.pc = "waiting", !.impl = impl, !.sources = sources,
                            !.outcomes = [p \in {"spotify", "lastfm"} |->
                                             IF p = "spotify" THEN spotify ELSE lastfm],
                            !.pending = IF impl = "utils" THEN sources
                                        ELSE {"spotify", "lastfm"}]

\* A provider's call settles; Promise.allSettled waits for the others.
FsSettle(p) ==
    /\ fs.pc = "waiting"
    /\ p \in fs.pending
    /\ fs' = [fs EXCEPT !.pending = @ \ {p}, !.arrived = Append(@, p)]

\* All calls have settled: the merge loops run.  A TypeError reaches the
\* catch, which throws 'Similar artists search failed'.
FsMerge ==
    /\ fs.pc = "waiting"
    /\ fs.pending = {}
    /\ LET merged == MergeAll(fs.impl, MergeOrder(fs.arrived), fs.sources, fs.outcomes,
                              [threw |-> FALSE, map |-> << >>])
       IN fs' = [fs EXCEPT !.pc = IF merged.threw THEN "threw" ELSE "merged",
                           !.map = merged.map, !.arrived = << >>]

\* Similarity metrics, filter, sort, slice; the result is returned.
FsRank ==
    /\ fs.pc = "merged"
    /\ fs' = [fs EXCEPT !.pc = "done", !.candidates = RankCandidates(fs.impl, fs.map)]

\* The caller has the result or the error and may call again.
FsReturn ==
    /\ fs.pc \in {"done", "threw"}
    /\ fs' = FsIdle

-----------------------------------------------------------------------------
(***************************************************************************)
(* The entry points an artist name comes in through: the handlers POST     *)
(* /api/research/suggestions (src/unnamed/part_004) and POST               *)
(* /api/metrics/calculate (src/unnamed/part_003), which test the name, and *)
(* APIOrchestrator.analyzeArtist (src/unnamed/part_005), which does not.   *)
(***************************************************************************)
EntryPoints == {"suggestions", "metrics", "analyzeArtist"}

\* The JavaScript values a caller can pass for the artist name.
ArtistValues ==
    { [type |-> "undefined", text |-> ""],
      [type |-> "string", text |-> ""],
      [type |-> "string", text |-> "Drake"],
      [type |-> "number", text |-> "0"],
      [type |-> "number", text |-> "42"] }

\* ToBoolean: undefined, "" and 0 are falsy.
Truthy(v) ==
    CASE v.type = "undefined" -> FALSE
      [] v.type = "string" -> v.text # ""
      [] v.type = "number" -> v.text # "0"

\* if (!body.artist || typeof body.artist !== 'string') return 400 VALIDATION_ERROR
HandlerRejects(v) == ~Truthy(v) \/ v.type # "string"

\* The providers a run of analyzeArtist can call.
EnProviders == {"spotify", "lastfm", "genius", "youtube"}

EnIdle ==
    [pc |-> "idle", entry |-> "suggestions", value |-> [type |-> "undefined", text |-> ""],
     forceRefresh |-> FALSE, cacheAccess |-> FALSE, providerCalls |-> {}, failed |-> {},
     outcome |-> "none"]

\* A request or a call arrives with a value for the artist name.
EnReceive(entry, v, forceRefresh) ==
    /\ en.pc = "idle"
    /\ entry # "analyzeArtist" => ~forceRefresh
    /\ en' = [EnIdle EXCEPT !.pc = IF entry = "analyzeArtist" THEN "check" ELSE "validate",
                            !.entry = entry, !.value = v, !.forceRefresh = forceRefresh]

\* The handlers' first statement after request.json().
EnValidate ==
    /\ en.pc = "validate"
    /\ en' = IF HandlerRejects(en.value)
             THEN [en EXCEPT !.pc = "done", !.outcome = "VALIDATION_ERROR"]
             ELSE [en EXCEPT !.pc = IF en.entry = "suggestions" THEN "check" ELSE "done",
                             !.outcome = IF en.entry = "suggestions" THEN "none" ELSE "ok"]

\* analyzeArtist: generateKey(...) accepts any value (String(part)); unless
\* forceRefresh the cache is read, and a hit is returned.  The suggestions
\* handler reaches the same through orchestrator.findSimilarArtists.
EnCacheCheck(hit) ==
    /\ en.pc = "check"
    /\ en.forceRefresh => ~hit
    /\ en' = [en EXCEPT !.pc = IF hit THEN "done" ELSE "fanOut",
                        !.cacheAccess = ~en.forceRefresh,
                        !.outcome = IF hit THEN "ok" ELSE "none"]

\* The provider calls: every provider is called with the name as it came;
\* failed: the providers whose call fails.  A failed YouTube analysis is
\* thrown on ('Artist analysis failed'), the others are absorbed.
EnFanOut(failed) ==
    /\ en.pc = "fanOut"
    /\ en' = [en EXCEPT !.pc = "done", !.providerCalls = EnProviders, !.cacheAccess = TRUE,
                        !.failed = failed,
                        !.outcome = IF "youtube" \in failed THEN "ANALYSIS_FAILED" ELSE "ok"]

\* The response is sent, the call returns.
EnReturn ==
    /\ en.pc = "done"
    /\ en' = EnIdle

-----------------------------------------------------------------------------
(***************************************************************************)
(* A caller of RedisClient (src/src/lib/cache/redis-client.ts) that calls  *)
(* set(key, value, ttl) and later reads the key with get or getBatch,      *)
(* while the clock, the connection, the server's expiry and the other      *)
(* callers go on.                                                          *)
(***************************************************************************)
\* The key this caller uses.
SgKeys == {"k1"}

\* ttl as passed to set: 0 stands for a call without ttl (and for ttl 0,
\* which `ttl || ...` treats alike).
TtlInputs == 0..MaxTtl

\* this.config.defaultTTL, in ticks.
DefaultTTL == 2

\* const finalTTL = ttl || (dataType ? this.TTL_PRESETS[dataType] : undefined)
\*                      || this.config.defaultTTL      (no dataType here)
FinalTTL(ttl) == IF ttl # 0 THEN ttl ELSE DefaultTTL

\* getBatch: if (now <= entry.timestamp + (entry.ttl * 1000)) results.set(...)
BatchLive(entry, now) == now <= entry.timestamp + entry.ttl

SgIdle ==
    [pc |-> "idle", key |-> "k1", value |-> Null, ttl |-> 0, setOk |-> FALSE,
     setAt |-> 0, connectedAtSet |-> FALSE, after |-> NoEntry,
     via |-> "get", reached |-> FALSE, immediate |-> FALSE, stale |-> FALSE, past |-> FALSE,
     hit |-> FALSE, result |-> Null]

\* set(key, value, ttl): false, and nothing stored, when the client is not
\* connected or SETEX fails; else the entry is stored and true returned.
SgSet(k, v, ttl) ==
    /\ sg.pc = "idle"
    /\ \E commandFails \in BOOLEAN :
          LET ok == rConnected /\ ~commandFails
              store == IF ok THEN [rStore EXCEPT ![k] = MakeEntry(v, rNow, FinalTTL(ttl))]
                       ELSE rStore
          IN
          /\ rStore' = store
          /\ sg' = [SgIdle EXCEPT !.pc = "afterSet", !.key = k, !.value = v, !.ttl = ttl,
                                  !.setOk = ok, !.setAt = rNow,
                                  !.connectedAtSet = rConnected, !.after = store[k]]
    /\ gs' = Clobber(k, "caller")
    /\ UNCHANGED <<rConnected, rNow>>

\* What the read finds unchanged since the set returned: the clock, the
\* connection and the key.
Immediately ==
    /\ rNow = sg.setAt
    /\ rConnected = sg.connectedAtSet
    /\ rStore[sg.key] = sg.after

\* What the caller can tell of its read: reached, the command reached the
\* server and was answered; stale, the key held an entry whose
\* time-to-live had run out; past, the caller's own entry was stored, its
\* time-to-live has run out and nobody has written the key since.
ReadOf(st, via, reached, hit, data) ==
    LET entry == rStore[st.key] IN
    [st EXCEPT !.pc = "afterRead", !.via = via, !.reached = reached,
               !.immediate = Immediately,
               !.stale = entry.present /\ rNow > entry.timestamp + entry.ttl,
               !.past = /\ st.setOk
                        /\ rNow > st.setAt + FinalTTL(st.ttl)
                        /\ entry \in {st.after, NoEntry},
               !.hit = hit, !.result = IF hit THEN data ELSE Null,
               !.setAt = 0, !.after = NoEntry]

\* get(key): null when the client is not connected, GET fails or the key is
\* absent; an expired entry is deleted (DEL, which may fail) and null returned;
\* else entry.data.
SgGet ==
    /\ sg.pc = "afterSet"
    /\ \E commandFails \in BOOLEAN, deleteFails \in BOOLEAN :
          LET k == sg.key
              entry == rStore[k]
              found == rConnected /\ ~commandFails /\ entry.present
          IN
          /\ deleteFails => found /\ Expired(entry, rNow)
          /\ sg' = ReadOf(sg, "get", rConnected /\ ~commandFails, found /\ ~Expired(entry, rNow), entry.data)
          /\ rStore' = IF found /\ Expired(entry, rNow) /\ ~deleteFails
                       THEN [rStore EXCEPT ![k] = NoEntry] ELSE rStore
    /\ gs' = gs
    /\ UNCHANGED <<rConnected, rNow>>

\* getBatch([key]): the key is in the result Map when the client is
\* connected, the pipeline succeeds, the key is present and its entry is
\* within its ttl; an expired entry is left in place.
SgGetBatch ==
    /\ sg.pc = "afterSet"
    /\ \E commandFails \in BOOLEAN :
          LET entry == rStore[sg.key]
              found == rConnected /\ ~commandFails /\ entry.present
          IN
          sg' = ReadOf(sg, "getBatch", rConnected /\ ~commandFails, found /\ BatchLive(entry, rNow), entry.data)
    /\ UNCHANGED <<rStore, rConnected, rNow, gs>>

\* The caller is finished with what it read.
SgReturn ==
    /\ sg.pc = "afterRead"
    /\ sg' = SgIdle
    /\ UNCHANGED <<rStore, rConnected, rNow, gs>>

-----------------------------------------------------------------------------
(***************************************************************************)
(* The result of analyzeArtist (src/unnamed/part_005) on its way through   *)
(* the cache: a first call builds and stores it, a second call with the    *)
(* same name and options reads it back.                                    *)
(***************************************************************************)
\* The longest a call takes, in ticks of Date.now().
MaxElapsed == 2

Undefined == "undefined"

\* The fields of ArtistAnalysisResult a call fills from what the providers
\* gave: spotifyData is undefined when Spotify's call was rejected, geniusData
\* is null when Genius found nothing; youtubeMetrics.volume.calculated_at is a
\* Date when YouTubeAnalyzer computed the metrics in this call and a string when
\* getOrSet read them from the cache.
AnalysisInputs ==
    [spotifyData : {"artist", Undefined}, geniusData : {"artist", Null, Undefined},
     youtubeMetrics : {"metrics(Date)", "metrics(string)"}]

\* const result: ArtistAnalysisResult = { ..., processingTime: Date.now() - startTime, cached: false }
BuiltResult(in, elapsed) ==
    [spotifyData |-> in.spotifyData, geniusData |-> in.geniusData,
     youtubeMetrics |-> in.youtubeMetrics, processingTime |-> elapsed, cached |-> FALSE]

\* JSON.parse(JSON.stringify(result)): a property whose value is undefined is
\* left out and reads as undefined again; a Date becomes a string; numbers,
\* booleans and null are kept.
StoredResult(result) ==
    [spotifyData |-> JsonRoundTrip(result.spotifyData),
     geniusData |-> JsonRoundTrip(result.geniusData),
     youtubeMetrics |-> JsonRoundTrip(result.youtubeMetrics),
     processingTime |-> result.processingTime, cached |-> result.cached]

\* return { ...cached, processingTime: Date.now() - startTime, cached: true }
CachedResult(stored, elapsed) ==
    [stored EXCEPT !.processingTime = elapsed, !.cached = TRUE]

NoInputs == [spotifyData |-> Undefined, geniusData |-> Undefined, youtubeMetrics |-> "metrics(string)"]

NoStoredResult == [present |-> FALSE, value |-> BuiltResult(NoInputs, 1)]

RpIdle ==
    [pc |-> "idle", first |-> BuiltResult(NoInputs, 1), stored |-> NoStoredResult,
     overwritten |-> FALSE, second |-> BuiltResult(NoInputs, 1)]

\* The first call misses, analyses, stores the result (unless the client is not
\* connected or the write fails) and returns it.
RpFirst(in, elapsed, writeFails) ==
    /\ rp.pc = "idle"
    /\ LET result == BuiltResult(in, elapsed) IN
       rp' = [RpIdle EXCEPT !.pc = "first", !.first = result,
                            !.stored = IF writeFails THEN NoStoredResult
                                       ELSE [present |-> TRUE, value |-> StoredResult(result)]]

\* Another call for the same name and options (of a concurrent request, or of
\* another process on the same server) stores the result of its own analysis.
RpOtherStore(in, elapsed) ==
    /\ rp.pc = "first"
    /\ rp' = [rp EXCEPT !.stored = [present |-> TRUE, value |-> StoredResult(BuiltResult(in, elapsed))],
                        !.overwritten = TRUE]

\* The entry's time-to-live runs out.
RpExpire ==
    /\ rp.pc = "first"
    /\ rp.stored.present
    /\ rp' = [rp EXCEPT !.stored = NoStoredResult]

\* The second call: a hit returns the stored result with its own
\* processingTime and cached: true; a miss (no entry, or the read fails)
\* analyses again.
RpSecond(in, elapsed, readFails) ==
    /\ rp.pc = "first"
    /\ rp' = [rp EXCEPT !.pc = "second",
                        !.second = IF rp.stored.present /\ ~readFails
                                   THEN CachedResult(rp.stored.value, elapsed)
                                   ELSE BuiltResult(in, elapsed)]

\* Both callers have their results.
RpReturn ==
    /\ rp.pc = "second"
    /\ rp' = RpIdle

-----------------------------------------------------------------------------
(***************************************************************************)
(* ScoringService (src/src/lib/services/math-utils.ts): the final score of *)
(* five component scores and its contextual adjustment.  Scores are in     *)
(* hundredths of a point, weights in hundredths, so that a weighted sum is *)
(* in units of 1e-4 of a point.                                            *)
(***************************************************************************)
\* DEFAULT_SCORING_CONFIG.weights (src/unnamed/part_009), in hundredths.
Weights_AsSpecified ==
    [volume_weight |-> 30, competition_weight |-> 25, trend_weight |-> 25,
     similarity_weight |-> 0, saturation_weight |-> 20]

Weights ==
    [volume_weight |-> 30, competition_weight |-> 25, trend_weight |-> 20,
     similarity_weight |-> 15, saturation_weight |-> 10]

\* The component scores a caller passes: negative, zero, inside the scale, its
\* top, and above it.
ScoreInputs == {-250, 0, 333, 1000, 1200}

ContextFlags == [isNewArtist : BOOLEAN, hasRecentHit : BOOLEAN,
                 isRegionalArtist : BOOLEAN, hasLabelSupport : BOOLEAN]

\* Math.round(x * 100) / 100 of x given in units of 1e-4, in hundredths:
\* Math.round rounds a half towards +Infinity.
RoundToHundredths(x) == (x + 50) \div 100

\* volumeScore * weights.volume_weight + ... + similarityScore * weights.similarity_weight
WeightedSum(s) ==
    s.volume * Weights.volume_weight + s.competition * Weights.competition_weight
    + s.trend * Weights.trend_weight + s.saturation * Weights.saturation_weight
    + s.similarity * Weights.similarity_weight

\* The standard deviation d of the five scores, as the code tests it: d < 1.5
\* is high, d < 3 is medium.  With S the sum and Q the sum of squares of the
\* scores in hundredths, d^2 = (5Q - S^2) / 25 / 10000.
ConfidenceLevel(s) ==
    LET S == s.volume + s.competition + s.trend + s.saturation + s.similarity
        Q == s.volume * s.volume + s.competition * s.competition + s.trend * s.trend
             + s.saturation * s.saturation + s.similarity * s.similarity
        d2 == 5 * Q - S * S
    IN  IF d2 * 4 < 9 * 250000 THEN "high"
        ELSE IF d2 < 9 * 250000 THEN "medium"
        ELSE "low"

\* calculateFinalScore: the fields of the FinalScore that depend on the scores.
CalculateFinalScore(s) ==
    [overall_score |-> RoundToHundredths(WeightedSum(s)),
     volume_score |-> s.volume, competition_score |-> s.competition,
     trend_score |-> s.trend, similarity_score |-> s.similarity,
     confidence_level |-> ConfidenceLevel(s)]

\* The bonuses and maluses of applyContextualAdjustments, in hundredths.
ContextAdjustment(context) ==
    (IF context.isNewArtist THEN 50 ELSE 0) - (IF context.hasRecentHit THEN 30 ELSE 0)
    + (IF context.isRegionalArtist THEN 20 ELSE 0) - (IF context.hasLabelSupport THEN 20 ELSE 0)

\* applyContextualAdjustments:
\* overall_score: Math.max(0, Math.min(10, Math.round(adjustedScore * 100) / 100))
ApplyContextualAdjustments(score, context) ==
    [score EXCEPT !.overall_score =
        Max(0, Min(1000, RoundToHundredths((score.overall_score + ContextAdjustment(context)) * 100)))]

NoScores == [volume |-> 0, competition |-> 0, trend |-> 0, saturation |-> 0, similarity |-> 0]

ScIdle == [pc |-> "idle", scores |-> NoScores, final |-> CalculateFinalScore(NoScores)]

\* calculateFinalScore(volumeScore, competitionScore, trendScore, saturationScore, similarityScore, artistName)
ScCalculate(s) ==
    /\ sc.pc = "idle"
    /\ sc' = [pc |-> "scored", scores |-> s, final |-> CalculateFinalScore(s)]

\* applyContextualAdjustments(score, context) on the score just calculated
ScAdjust(context) ==
    /\ sc.pc = "scored"
    /\ sc' = [sc EXCEPT !.pc = "adjusted", !.final = ApplyContextualAdjustments(sc.final, context)]

\* The caller has its FinalScore.
ScReturn ==
    /\ sc.pc \in {"scored", "adjusted"}
    /\ sc' = ScIdle

-----------------------------------------------------------------------------
(***************************************************************************)
(* The genre overlap of two genre lists: the static method of              *)
(* SimilarityCalculator (src/src/lib/services/similarity-calculator.ts)    *)
(* and the private method of the orchestrator of                           *)
(* src/src/app/api/research/suggestions/utils.ts.  An overlap is the       *)
(* fraction num / den.                                                     *)
(***************************************************************************)
\* The longest genre list passed.
MaxGenres == 2

GoImpls == {"SimilarityCalculator", "APIOrchestrator"}

\* Genre strings as providers spell them: Spotify genres and Last.fm tags
\* differ in case and in surrounding blanks.
Genres == {"trap", "Trap", " trap", "drill"}

\* String.prototype.trim()
Trim(g) == IF g = " trap" THEN "trap" ELSE g

\* A genre list without a repeated string, of at most MaxGenres strings.
GenreLists ==
    {l \in UNION {[1..n -> Genres] : n \in 0..MaxGenres} :
        \A i \in 1..Len(l), j \in 1..Len(l) : l[i] = l[j] => i = j}

\* genres.map(g => g.toLowerCase().trim()) in SimilarityCalculator,
\* genres.map(g => g.toLowerCase()) in the orchestrator
Normalized(impl, l) ==
    [i \in 1..Len(l) |-> IF impl = "SimilarityCalculator" THEN Trim(ToLowerCase(l[i]))
                         ELSE ToLowerCase(l[i])]

Elements(l) == {l[i] : i \in 1..Len(l)}

\* SimilarityCalculator: normalizedGenres1.filter(genre => normalizedGenres2.includes(genre)).length,
\* an array that keeps every position of genres1; the orchestrator:
\* new Set([...set1].filter(g => set2.has(g))).size
IntersectionSize(impl, n1, n2) ==
    IF impl = "SimilarityCalculator"
    THEN Cardinality({i \in 1..Len(n1) : n1[i] \in Elements(n2)})
    ELSE Cardinality(Elements(n1) \cap Elements(n2))

\* new Set([...normalizedGenres1, ...normalizedGenres2]).size
UnionSize(n1, n2) == Cardinality(Elements(n1) \cup Elements(n2))

ZeroOverlap == [num |-> 0, den |-> 1]

\* calculateGenreOverlap(genres1, genres2)
CalculateGenreOverlap(impl, genres1, genres2) ==
    IF Len(genres1) = 0 \/ Len(genres2) = 0 THEN ZeroOverlap
    ELSE LET n1 == Normalized(impl, genres1)
             n2 == Normalized(impl, genres2)
         IN  [num |-> IntersectionSize(impl, n1, n2), den |-> UnionSize(n1, n2)]

GoIdle ==
    [pc |-> "idle", impl |-> "SimilarityCalculator", genres1 |-> << >>, genres2 |-> << >>,
     overlap |-> ZeroOverlap, swapped |-> ZeroOverlap]

\* calculateGenreOverlap(genres1, genres2)
GoCall(impl, genres1, genres2) ==
    /\ go.pc = "idle"
    /\ go' = [GoIdle EXCEPT !.pc = "called", !.impl = impl, !.genres1 = genres1,
                            !.genres2 = genres2,
                            !.overlap = CalculateGenreOverlap(impl, genres1, genres2)]

\* calculateGenreOverlap(genres2, genres1): a second call of the same method
\* with the arguments exchanged
GoCallSwapped ==
    /\ go.pc = "called"
    /\ go' = [go EXCEPT !.pc = "swapped",
                        !.swapped = CalculateGenreOverlap(go.impl, go.genres2, go.genres1)]

\* The caller has both overlaps.
GoReturn ==
    /\ go.pc = "swapped"
    /\ go' = GoIdle

-----------------------------------------------------------------------------
(***************************************************************************)
(* YouTubeAnalyzer.analyzeTrends (src/src/lib/services/youtube-analyzer.ts)*)
(* called twice on the same videos.  Time is in days since 1 January of a  *)
(* year of 365 days; a list of videos is given by how many of them were    *)
(* published on each of a few days.                                        *)
(***************************************************************************)
\* How often the clock advances between the two calls.
MaxTrTicks == 3

\* The day of the first call and the days the clock advances by.
StartDay == 200
DayStep == 10

PublishDays == {20, 115, 195}

VideoLists == [PublishDays -> {0, 1, 5}]

\* videos.length
VideoCount(videos) == videos[20] + videos[115] + videos[195]

\* videos.filter(v => <from> <= new Date(v.publishedAt) < <before>).length
PublishedIn(videos, from, before) ==
    (IF 20 >= from /\ 20 < before THEN videos[20] ELSE 0)
    + (IF 115 >= from /\ 115 < before THEN videos[115] ELSE 0)
    + (IF 195 >= from /\ 195 < before THEN videos[195] ELSE 0)

\* Date.prototype.getMonth()
MonthOf(day) ==
    LET d == day % 365 IN
    CASE d < 31 -> 0 [] d < 59 -> 1 [] d < 90 -> 2 [] d < 120 -> 3 [] d < 151 -> 4
      [] d < 181 -> 5 [] d < 212 -> 6 [] d < 243 -> 7 [] d < 273 -> 8 [] d < 304 -> 9
      [] d < 334 -> 10 [] OTHER -> 11

\* Math.round(n / d) for d > 0
RoundDiv(n, d) == (2 * n + d) \div (2 * d)

\* calculateMomentumScore, rounded as analyzeTrends rounds it
MomentumScore(videos, now) ==
    IF VideoCount(videos) < 10 THEN 50
    ELSE LET c7 == PublishedIn(videos, now - 7, now + 1)
             c14 == PublishedIn(videos, now - 14, now + 1)
             c30 == PublishedIn(videos, now - 30, now + 1)
         IN  Min(Max(RoundDiv((c7 * 4 + c14 * 2 + c30) * 10, 7), 0), 100)

\* calculateSeasonalityFactor, in hundredths
SeasonalityFactor(videos, now) ==
    LET inMonth == (IF MonthOf(20) = MonthOf(now) THEN videos[20] ELSE 0)
                   + (IF MonthOf(115) = MonthOf(now) THEN videos[115] ELSE 0)
                   + (IF MonthOf(195) = MonthOf(now) THEN videos[195] ELSE 0)
    IN  IF VideoCount(videos) > 0 THEN RoundDiv(inMonth * 1200, VideoCount(videos)) ELSE 100

\* getDefaultTrendMetrics()
DefaultTrendMetrics ==
    [trend_direction |-> "stable", trend_factor |-> 100, growth_rate_3m |-> 0,
     seasonality_factor |-> 100, momentum_score |-> 50]

\* analyzeTrends(videos) when new Date() is day now: trend_factor and
\* seasonality_factor in hundredths, growth_rate_3m in tenths of a percent.
AnalyzeTrends(videos, now) ==
    IF VideoCount(videos) = 0 THEN DefaultTrendMetrics
    ELSE LET recentCount == PublishedIn(videos, now - 90, now + 1000)
             previousCount == PublishedIn(videos, now - 180, now - 90)
             grows == recentCount - previousCount
         IN  [trend_direction |->
                 IF previousCount > 0 /\ grows * 100 > 10 * previousCount THEN "rising"
                 ELSE IF previousCount > 0 /\ grows * 100 < -10 * previousCount THEN "declining"
                 ELSE "stable",
              trend_factor |->
                 IF previousCount > 0
                 THEN Max(50, Min(200, RoundDiv(100 * previousCount + grows * 100, previousCount)))
                 ELSE 100,
              growth_rate_3m |->
                 IF previousCount > 0 THEN RoundDiv(grows * 1000, previousCount) ELSE 0,
              seasonality_factor |-> SeasonalityFactor(videos, now),
              momentum_score |-> MomentumScore(videos, now)]

TrIdle ==
    [pc |-> "idle", now |-> StartDay, videos |-> [d \in PublishDays |-> 0],
     first |-> DefaultTrendMetrics, second |-> DefaultTrendMetrics]

\* analyzeTrends(videos)
TrAnalyze(videos) ==
    /\ tr.pc = "idle"
    /\ tr' = [tr EXCEPT !.pc = "first", !.videos = videos,
                        !.first = AnalyzeTrends(videos, tr.now)]

\* Time passes between the two calls.
TrTick ==
    /\ tr.pc = "first"
    /\ tr.now + DayStep <= StartDay + MaxTrTicks * DayStep
    /\ tr' = [tr EXCEPT !.now = @ + DayStep]

\* analyzeTrends(videos) once more, on the same videos
TrAnalyzeAgain ==
    /\ tr.pc = "first"
    /\ tr' = [tr EXCEPT !.pc = "second", !.second = AnalyzeTrends(tr.videos, tr.now)]

\* The caller has both results.
TrReturn ==
    /\ tr.pc = "second"
    /\ tr' = TrIdle

-----------------------------------------------------------------------------
(***************************************************************************)
(* GeniusClient.checkRateLimit (src/unnamed/part_005) in time: callers     *)
(* whose requests enter the request interceptor while others are asleep in *)
(* it.  Time is in ticks of 250 ms.                                        *)
(***************************************************************************)
\* The callers that issue requests at the same time, and the ticks observed.
MaxGtCallers == 2
MaxGtTime == 4

\* const minInterval = 500, and the model's tick, in ms.
MinIntervalMs == 500
GtTickMs == 250

GtCallers == 1 .. MaxGtCallers

\* A time so far back that no wait is due: lastRequestTime starts at 0, the
\* sends of the model start out unset.
LongAgo == 0 - (MinIntervalMs \div GtTickMs)

GtCallerIdle == [pc |-> "idle", wake |-> 0]

\* lastSend and prevSend are the times of the last two requests sent.
GtIdle ==
    [now |-> 0, lastRequestTime |-> LongAgo, callers |-> [c \in GtCallers |-> GtCallerIdle],
     lastSend |-> LongAgo, prevSend |-> LongAgo, sent |-> 0]

\* this.requestCount++; this.lastRequestTime = Date.now(); the interceptor
\* returns the config and the request is sent.
GtSend(c) ==
    [gt EXCEPT !.callers[c] = [pc |-> "sent", wake |-> 0],
               !.lastRequestTime = gt.now,
               !.prevSend = gt.lastSend,
               !.lastSend = gt.now,
               !.sent = IF @ < 2 THEN @ + 1 ELSE @]

\* checkRateLimit up to its await: a request less than minInterval after
\* lastRequestTime sets a timer for the rest of the interval, any other is
\* sent at once.
GtCheckRateLimit(c) ==
    /\ gt.callers[c].pc = "idle"
    /\ LET timeSinceLastRequest == (gt.now - gt.lastRequestTime) * GtTickMs IN
       IF timeSinceLastRequest < MinIntervalMs
       THEN gt' = [gt EXCEPT !.callers[c] =
                      [pc |-> "sleep",
                       wake |-> gt.now + (MinIntervalMs - timeSinceLastRequest) \div GtTickMs]]
       ELSE gt' = GtSend(c)

\* The timer of checkRateLimit fires and the request is sent.
GtRateWake(c) ==
    /\ gt.callers[c].pc = "sleep"
    /\ gt.now >= gt.callers[c].wake
    /\ gt' = GtSend(c)

\* The request is answered; the caller may issue the next one.
GtResponse(c) ==
    /\ gt.callers[c].pc = "sent"
    /\ gt' = [gt EXCEPT !.callers[c] = GtCallerIdle]

\* 250 ms pass; a timer that is due fires first.
GtTick ==
    /\ gt.now < MaxGtTime
    /\ \A c \in GtCallers : gt.callers[c].pc = "sleep" => gt.now < gt.callers[c].wake
    /\ gt' = [gt EXCEPT !.now = @ + 1]

-----------------------------------------------------------------------------
(***************************************************************************)
(* The cache entries of analyzeArtist (src/unnamed/part_005) by their key: *)
(* calls for several artist names, with and without forceRefresh, over one *)
(* store.  Every analysis computed gets the next version number.           *)
(***************************************************************************)
\* The analyses computed in one run.
MaxVersions == 3

KyNames == {"Jay-Z", "JAY-Z", "Jay Z", "Drake"}

KyOptions == [forceRefresh : BOOLEAN]

\* JSON.stringify(options): forceRefresh is in the options when the caller
\* passed it as true.
Stringify(opts) == IF opts.forceRefresh THEN "{\"forceRefresh\":true}" ELSE "{}"

\* part.replace(/[^a-z0-9]/g, '_') for a lower-cased part
ReplaceNonAlphanumeric(part) ==
    CASE part = "jay-z" -> "jay_z"
      [] part = "jay z" -> "jay_z"
      [] part = "{}" -> "__"
      [] part = "{\"forcerefresh\":true}" -> "__forcerefresh__true_"
      [] OTHER -> part

\* generateKey(type, ...parts): the type and the cleaned parts, joined by ':'
\* (':' is not in a cleaned part, so the sequence stands for the string).
GenerateKey(type, parts) ==
    <<type>> \o [i \in 1..Len(parts) |-> ReplaceNonAlphanumeric(ToLowerCase(parts[i]))]

\* const cacheKey = this.cache.generateKey('artist_analysis', artistName, JSON.stringify(options))
CacheKeyOf(name, opts) == GenerateKey("artist_analysis", <<name, Stringify(opts)>>)

KyKeys == {CacheKeyOf(n, o) : n \in KyNames, o \in KyOptions}

\* What an analysis was computed for, and when.
NoAnalysisEntry == [present |-> FALSE, name |-> "Drake", opts |-> [forceRefresh |-> FALSE], version |-> 0]

NoKyCall == [name |-> "Drake", opts |-> [forceRefresh |-> FALSE], result |-> NoAnalysisEntry, cached |-> FALSE]

KyIdle ==
    [store |-> [k \in KyKeys |-> NoAnalysisEntry], versions |-> 0, calls |-> 0,
     prev |-> NoKyCall, last |-> NoKyCall]

\* analyzeArtist(name, options) from its call to its return: without
\* forceRefresh an entry under the key is returned as it is; otherwise the
\* analysis is computed, stored under the key (unless the store fails) and
\* returned.
KyAnalyzeArtist(name, opts, storeFails) ==
    /\ LET cacheKey == CacheKeyOf(name, opts)
           cached == ky.store[cacheKey]
           fresh == [present |-> TRUE, name |-> name, opts |-> opts, version |-> ky.versions + 1]
       IN  IF ~opts.forceRefresh /\ cached.present
           THEN ky' = [ky EXCEPT !.prev = ky.last, !.calls = IF @ < 2 THEN @ + 1 ELSE @,
                                 !.last = [name |-> name, opts |-> opts,
                                           result |-> cached, cached |-> TRUE]]
           ELSE /\ ky.versions < MaxVersions
                /\ ky' = [ky EXCEPT !.prev = ky.last, !.calls = IF @ < 2 THEN @ + 1 ELSE @,
                                 !.versions = @ + 1,
                                 !.store[cacheKey] = IF storeFails THEN @ ELSE fresh,
                                 !.last = [name |-> name, opts |-> opts,
                                           result |-> fresh, cached |-> FALSE]]

\* An entry's time-to-live runs out.
KyExpire(k) ==
    /\ ky.store[k].present
    /\ ky' = [ky EXCEPT !.store[k] = NoAnalysisEntry]

-----------------------------------------------------------------------------
\* new LastFmClient(): an empty queue, no processQueue running.
\* new RedisClient(config): not connected (lazyConnect), nothing stored.
Init ==
    /\ lfQueue = <<>>
    /\ lfProcessing = FALSE
    /\ lfLoop = "idle"
    /\ lfTimer = 0
    /\ lfStatus = [c \in LfCalls |-> "new"]
    /\ lfSubmitted = <<>>
    /\ lfSent = <<>>
    /\ lfStarts = <<>>
    /\ rStore = [k \in CacheKeys |-> NoEntry]
    /\ rConnected = FALSE
    /\ rNow = 0
    /\ gs = [c \in GsCalls |-> GsIdle]
    /\ aCall = ACallIdle
    /\ aStore = [k \in AKeys |-> Absent]
    /\ post = PostIdle
    /\ pResp = NoResponse
    /\ aPrev = [completed |-> FALSE, opts |-> NoOptions, stored |-> FALSE, changed |-> FALSE]
    /\ ytQuotaUsed = 0
    /\ yt = [c \in YtCalls |-> YtIdle]
    /\ spImpl = Unbuilt
    /\ spToken = NoToken
    /\ spLeft = 0
    /\ spCount = 0
    /\ spSince = 2
    /\ sp = [r \in SpRequests |-> SpIdle]
    /\ gnCount = 0
    /\ gn = GnIdle
    /\ fs = FsIdle
    /\ en = EnIdle
    /\ sg = SgIdle
    /\ rp = RpIdle
    /\ sc = ScIdle
    /\ go = GoIdle
    /\ tr = TrIdle
    /\ gt = GtIdle
    /\ ky = KyIdle

-----------------------------------------------------------------------------
(***************************************************************************)
(* Specifications                                                          *)
(***************************************************************************)

LfNext ==
    \/ LfSubmit /\ UNCHANGED <<rVars, aVars, pVars, clientVars>>
    \/ LfRequestSettle /\ UNCHANGED <<rVars, aVars, pVars, clientVars>>
    \/ LfWaitDone /\ UNCHANGED <<rVars, aVars, pVars, clientVars>>
    \/ LfTick /\ UNCHANGED <<rVars, aVars, pVars, clientVars>>

SpecLastFm == Init /\ [][LfNext]_vars

\* The event loop runs due timers and continuations, the clock advances and
\* axios settles every request within its 30 s timeout.
SpecLastFmFair ==
    /\ Init
    /\ [][LfNext]_vars
    /\ WF_vars(LfRequestSettle /\ UNCHANGED <<rVars, aVars, pVars, clientVars>>)
    /\ WF_vars(LfWaitDone /\ UNCHANGED <<rVars, aVars, pVars, clientVars>>)
    /\ WF_vars(LfTick /\ UNCHANGED <<rVars, aVars, pVars, clientVars>>)

CacheNext ==
    \/ \E c \in GsCalls, k \in CacheKeys : GsCall(c, k) /\ UNCHANGED <<lfVars, aVars, pVars, clientVars>>
    \/ \E c \in GsCalls : GsGet(c) /\ UNCHANGED <<lfVars, aVars, pVars, clientVars>>
    \/ \E c \in GsCalls : GsDelete(c) /\ UNCHANGED <<lfVars, aVars, pVars, clientVars>>
    \/ \E c \in GsCalls : GsFactory(c) /\ UNCHANGED <<lfVars, aVars, pVars, clientVars>>
    \/ \E c \in GsCalls : GsSet(c) /\ UNCHANGED <<lfVars, aVars, pVars, clientVars>>
    \/ \E c \in GsCalls : GsReturn(c) /\ UNCHANGED <<lfVars, aVars, pVars, clientVars>>
    \/ \E c \in GsCalls : GsForget(c) /\ UNCHANGED <<lfVars, aVars, pVars, clientVars>>
    \/ RConnect /\ UNCHANGED <<lfVars, aVars, pVars, clientVars>>
    \/ RDisconnect /\ UNCHANGED <<lfVars, aVars, pVars, clientVars>>
    \/ RTick /\ UNCHANGED <<lfVars, aVars, pVars, clientVars>>
    \/ \E k \in CacheKeys : RServerExpire(k) /\ UNCHANGED <<lfVars, aVars, pVars, clientVars>>
    \/ \E k \in CacheKeys : ROtherSet(k) /\ UNCHANGED <<lfVars, aVars, pVars, clientVars>>
    \/ \E k \in CacheKeys : ROtherDelete(k) /\ UNCHANGED <<lfVars, aVars, pVars, clientVars>>

SpecCache == Init /\ [][CacheNext]_vars

AnalyzeNext ==
    \/ \E opts \in AOptions, down \in DownSets :
          AStart(opts, down) /\ UNCHANGED <<lfVars, rVars, pVars, clientVars>>
    \/ ACheck /\ UNCHANGED <<lfVars, rVars, pVars, clientVars>>
    \/ \E p \in BaseProviders : AFetch(p) /\ UNCHANGED <<lfVars, rVars, pVars, clientVars>>
    \/ AYouTube /\ UNCHANGED <<lfVars, rVars, pVars, clientVars>>
    \/ AStore /\ UNCHANGED <<lfVars, rVars, pVars, clientVars>>
    \/ AReturn /\ UNCHANGED <<lfVars, rVars, pVars, clientVars>>
    \/ \E k \in AKeys : AExpire(k) /\ UNCHANGED <<lfVars, rVars, pVars, clientVars>>
    \/ RConnect /\ UNCHANGED <<lfVars, aVars, pVars, clientVars>>
    \/ RDisconnect /\ UNCHANGED <<lfVars, aVars, pVars, clientVars>>

SpecAnalyze == Init /\ [][AnalyzeNext]_vars

SuggestionsNext ==
    \/ \E kind \in BodyKinds, artist \in ArtistInputs, rawLimit \in LimitInputs,
          down \in SUBSET Providers, known \in SUBSET BaseProviders :
          PostReceive(kind, artist, rawLimit, down, known) /\ UNCHANGED <<lfVars, rVars, aVars, clientVars>>
    \/ PostCreate /\ UNCHANGED <<lfVars, rVars, aVars, clientVars>>
    \/ PostAnalyzeMain /\ UNCHANGED <<lfVars, rVars, aVars, clientVars>>
    \/ PostFindSimilar /\ UNCHANGED <<lfVars, rVars, aVars, clientVars>>
    \/ PostAnalyzeCandidate /\ UNCHANGED <<lfVars, rVars, aVars, clientVars>>
    \/ PostFinish /\ UNCHANGED <<lfVars, rVars, aVars, clientVars>>
    \/ PostDone /\ UNCHANGED <<lfVars, rVars, aVars, clientVars>>

SpecSuggestions == Init /\ [][SuggestionsNext]_vars

YouTubeNext ==
    \/ \E c \in YtCalls : YtSearch(c) /\ UNCHANGED <<coreVars, sVars, gVars, libVars>>
    \/ \E c \in YtCalls : YtCheckRateLimit(c) /\ UNCHANGED <<coreVars, sVars, gVars, libVars>>
    \/ \E c \in YtCalls : YtSend(c) /\ UNCHANGED <<coreVars, sVars, gVars, libVars>>
    \/ \E c \in YtCalls, n \in VideoCounts :
          YtSearchResponse(c, n) /\ UNCHANGED <<coreVars, sVars, gVars, libVars>>
    \/ \E c \in YtCalls : YtSearchError(c) /\ UNCHANGED <<coreVars, sVars, gVars, libVars>>
    \/ \E c \in YtCalls, ok \in BOOLEAN :
          YtDetailsResponse(c, ok) /\ UNCHANGED <<coreVars, sVars, gVars, libVars>>
    \/ \E c \in YtCalls : YtSettle(c) /\ UNCHANGED <<coreVars, sVars, gVars, libVars>>
    \/ YtResetQuota /\ UNCHANGED <<coreVars, sVars, gVars, libVars>>

SpecYouTube == Init /\ [][YouTubeNext]_vars

SpotifyNext ==
    \/ \E impl \in SpImpls : SpNew(impl) /\ UNCHANGED <<coreVars, yVars, gVars, libVars>>
    \/ \E r \in SpRequests : SpRequest(r) /\ UNCHANGED <<coreVars, yVars, gVars, libVars>>
    \/ \E r \in SpRequests : SpEnsureValidToken(r) /\ UNCHANGED <<coreVars, yVars, gVars, libVars>>
    \/ \E r \in SpRequests, ok \in BOOLEAN, expiresIn \in ExpiresInChoices :
          SpRefreshResponse(r, ok, expiresIn) /\ UNCHANGED <<coreVars, yVars, gVars, libVars>>
    \/ \E r \in SpRequests : SpCheckRateLimit(r) /\ UNCHANGED <<coreVars, yVars, gVars, libVars>>
    \/ \E r \in SpRequests : SpRateWake(r) /\ UNCHANGED <<coreVars, yVars, gVars, libVars>>
    \/ \E r \in SpRequests, status \in SpStatuses :
          SpResponse(r, status) /\ UNCHANGED <<coreVars, yVars, gVars, libVars>>
    \/ \E r \in SpRequests : SpRetryAfter(r) /\ UNCHANGED <<coreVars, yVars, gVars, libVars>>
    \/ \E r \in SpRequests : SpSettle(r) /\ UNCHANGED <<coreVars, yVars, gVars, libVars>>
    \/ SpTick /\ UNCHANGED <<coreVars, yVars, gVars, libVars>>

SpecSpotify == Init /\ [][SpotifyNext]_vars

\* Every step of a request is taken eventually: the ready continuations
\* run, and the event loop delivers every timer and every answer of the
\* token endpoint and of the API (each request is answered, with some
\* status) once the ready continuations have run.
SpecSpotifyFair ==
    /\ Init
    /\ [][SpotifyNext]_vars
    /\ \A r \in SpRequests :
          /\ WF_vars(SpEnsureValidToken(r) /\ UNCHANGED <<coreVars, yVars, gVars, libVars>>)
          /\ SF_vars((\E ok \in BOOLEAN, expiresIn \in ExpiresInChoices :
                         SpRefreshResponse(r, ok, expiresIn))
                     /\ UNCHANGED <<coreVars, yVars, gVars, libVars>>)
          /\ WF_vars(SpCheckRateLimit(r) /\ UNCHANGED <<coreVars, yVars, gVars, libVars>>)
          /\ SF_vars(SpRateWake(r) /\ UNCHANGED <<coreVars, yVars, gVars, libVars>>)
          /\ SF_vars((\E status \in SpStatuses : SpResponse(r, status))
                     /\ UNCHANGED <<coreVars, yVars, gVars, libVars>>)
          /\ SF_vars(SpRetryAfter(r) /\ UNCHANGED <<coreVars, yVars, gVars, libVars>>)
          /\ WF_vars(SpSettle(r) /\ UNCHANGED <<coreVars, yVars, gVars, libVars>>)
    /\ SF_vars(SpTick /\ UNCHANGED <<coreVars, yVars, gVars, libVars>>)

GeniusNext ==
    \/ \E others \in OtherOutcomes : GnAnalyze(others) /\ UNCHANGED <<coreVars, yVars, sVars, libVars>>
    \/ \E q \in GnRequestNames, recent \in BOOLEAN :
          GnCheckRateLimit(q, recent) /\ UNCHANGED <<coreVars, yVars, sVars, libVars>>
    \/ \E q \in GnRequestNames : GnRateWake(q) /\ UNCHANGED <<coreVars, yVars, sVars, libVars>>
    \/ \E q \in GnRequestNames, status \in GnStatuses :
          GnResponse(q, status) /\ UNCHANGED <<coreVars, yVars, sVars, libVars>>
    \/ \E q \in GnRequestNames : GnRetry429(q) /\ UNCHANGED <<coreVars, yVars, sVars, libVars>>
    \/ \E body \in SearchBodies : GnSearchDone(body) /\ UNCHANGED <<coreVars, yVars, sVars, libVars>>
    \/ GnGetArtistDone /\ UNCHANGED <<coreVars, yVars, sVars, libVars>>
    \/ GnComplete /\ UNCHANGED <<coreVars, yVars, sVars, libVars>>
    \/ GnReturn /\ UNCHANGED <<coreVars, yVars, sVars, libVars>>

SpecGenius == Init /\ [][GeniusNext]_vars

SimilarNext ==
    \/ /\ fs.pc = "idle"
       /\ \E impl \in FsImpls, sources \in FsSourceOptions,
             spotify \in FsOutcomes, lastfm \in FsOutcomes :
             FsCall(impl, sources, spotify, lastfm) /\ UNCHANGED <<coreVars, yVars, sVars, gVars, eVars, cVars, resVars, scVars, calcVars>>
    \/ \E p \in {"spotify", "lastfm"} : FsSettle(p) /\ UNCHANGED <<coreVars, yVars, sVars, gVars, eVars, cVars, resVars, scVars, calcVars>>
    \/ FsMerge /\ UNCHANGED <<coreVars, yVars, sVars, gVars, eVars, cVars, resVars, scVars, calcVars>>
    \/ FsRank /\ UNCHANGED <<coreVars, yVars, sVars, gVars, eVars, cVars, resVars, scVars, calcVars>>
    \/ FsReturn /\ UNCHANGED <<coreVars, yVars, sVars, gVars, eVars, cVars, resVars, scVars, calcVars>>

SpecSimilar == Init /\ [][SimilarNext]_vars

EntryNext ==
    \/ \E entry \in EntryPoints, v \in ArtistValues, forceRefresh \in BOOLEAN :
          EnReceive(entry, v, forceRefresh) /\ UNCHANGED <<coreVars, yVars, sVars, gVars, fVars, cVars, resVars, scVars, calcVars>>
    \/ EnValidate /\ UNCHANGED <<coreVars, yVars, sVars, gVars, fVars, cVars, resVars, scVars, calcVars>>
    \/ \E hit \in BOOLEAN : EnCacheCheck(hit) /\ UNCHANGED <<coreVars, yVars, sVars, gVars, fVars, cVars, resVars, scVars, calcVars>>
    \/ \E failed \in SUBSET EnProviders : EnFanOut(failed) /\ UNCHANGED <<coreVars, yVars, sVars, gVars, fVars, cVars, resVars, scVars, calcVars>>
    \/ EnReturn /\ UNCHANGED <<coreVars, yVars, sVars, gVars, fVars, cVars, resVars, scVars, calcVars>>

SpecEntry == Init /\ [][EntryNext]_vars

SetGetNext ==
    \/ \E k \in SgKeys, v \in FactoryValues, ttl \in TtlInputs :
          SgSet(k, v, ttl) /\ UNCHANGED <<lfVars, aVars, pVars, yVars, sVars, gVars, fVars, eVars, resVars, scVars, calcVars>>
    \/ SgGet /\ UNCHANGED <<lfVars, aVars, pVars, yVars, sVars, gVars, fVars, eVars, resVars, scVars, calcVars>>
    \/ SgGetBatch /\ UNCHANGED <<lfVars, aVars, pVars, yVars, sVars, gVars, fVars, eVars, resVars, scVars, calcVars>>
    \/ SgReturn /\ UNCHANGED <<lfVars, aVars, pVars, yVars, sVars, gVars, fVars, eVars, resVars, scVars, calcVars>>
    \/ RConnect /\ UNCHANGED sg /\ UNCHANGED <<lfVars, aVars, pVars, yVars, sVars, gVars, fVars, eVars, resVars, scVars, calcVars>>
    \/ RDisconnect /\ UNCHANGED sg /\ UNCHANGED <<lfVars, aVars, pVars, yVars, sVars, gVars, fVars, eVars, resVars, scVars, calcVars>>
    \/ RTick /\ UNCHANGED sg /\ UNCHANGED <<lfVars, aVars, pVars, yVars, sVars, gVars, fVars, eVars, resVars, scVars, calcVars>>
    \/ \E k \in SgKeys : RServerExpire(k) /\ UNCHANGED sg /\ UNCHANGED <<lfVars, aVars, pVars, yVars, sVars, gVars, fVars, eVars, resVars, scVars, calcVars>>
    \/ \E k \in SgKeys : ROtherSet(k) /\ UNCHANGED sg /\ UNCHANGED <<lfVars, aVars, pVars, yVars, sVars, gVars, fVars, eVars, resVars, scVars, calcVars>>
    \/ \E k \in SgKeys : ROtherDelete(k) /\ UNCHANGED sg /\ UNCHANGED <<lfVars, aVars, pVars, yVars, sVars, gVars, fVars, eVars, resVars, scVars, calcVars>>

SpecSetGet == Init /\ [][SetGetNext]_vars

RepeatNext ==
    \/ \E in \in AnalysisInputs, elapsed \in 1..MaxElapsed, writeFails \in BOOLEAN :
          RpFirst(in, elapsed, writeFails) /\ UNCHANGED <<coreVars, yVars, sVars, gVars, fVars, eVars, cVars, scVars, calcVars>>
    \/ /\ rp.pc = "first"
       /\ \E in \in AnalysisInputs, elapsed \in 1..MaxElapsed :
             RpOtherStore(in, elapsed) /\ UNCHANGED <<coreVars, yVars, sVars, gVars, fVars, eVars, cVars, scVars, calcVars>>
    \/ RpExpire /\ UNCHANGED <<coreVars, yVars, sVars, gVars, fVars, eVars, cVars, scVars, calcVars>>
    \/ /\ rp.pc = "first"
       /\ \E in \in AnalysisInputs, elapsed \in 1..MaxElapsed, readFails \in BOOLEAN :
             RpSecond(in, elapsed, readFails) /\ UNCHANGED <<coreVars, yVars, sVars, gVars, fVars, eVars, cVars, scVars, calcVars>>
    \/ RpReturn /\ UNCHANGED <<coreVars, yVars, sVars, gVars, fVars, eVars, cVars, scVars, calcVars>>

SpecRepeat == Init /\ [][RepeatNext]_vars

ScoringNext ==
    \/ /\ sc.pc = "idle"
       /\ \E v \in ScoreInputs, c \in ScoreInputs, t \in ScoreInputs,
             sat \in ScoreInputs, sim \in ScoreInputs :
             ScCalculate([volume |-> v, competition |-> c, trend |-> t,
                          saturation |-> sat, similarity |-> sim]) /\ UNCHANGED <<coreVars, yVars, sVars, gVars, fVars, eVars, cVars, resVars, calcVars>>
    \/ \E context \in ContextFlags : ScAdjust(context) /\ UNCHANGED <<coreVars, yVars, sVars, gVars, fVars, eVars, cVars, resVars, calcVars>>
    \/ ScReturn /\ UNCHANGED <<coreVars, yVars, sVars, gVars, fVars, eVars, cVars, resVars, calcVars>>

SpecScoring == Init /\ [][ScoringNext]_vars

\* Everything but the genre overlap.
exceptGo == <<coreVars, yVars, sVars, gVars, fVars, eVars, cVars, resVars, scVars, tr, gt, ky>>

OverlapNext ==
    \/ /\ go.pc = "idle"
       /\ \E impl \in GoImpls, genres1 \in GenreLists, genres2 \in GenreLists :
             GoCall(impl, genres1, genres2) /\ UNCHANGED exceptGo
    \/ GoCallSwapped /\ UNCHANGED exceptGo
    \/ GoReturn /\ UNCHANGED exceptGo

SpecOverlap == Init /\ [][OverlapNext]_vars

\* Everything but the trend analysis.
exceptTr == <<coreVars, yVars, sVars, gVars, fVars, eVars, cVars, resVars, scVars, go, gt, ky>>

TrendNext ==
    \/ \E videos \in VideoLists : TrAnalyze(videos) /\ UNCHANGED exceptTr
    \/ TrTick /\ UNCHANGED exceptTr
    \/ TrAnalyzeAgain /\ UNCHANGED exceptTr
    \/ TrReturn /\ UNCHANGED exceptTr

SpecTrend == Init /\ [][TrendNext]_vars

\* Everything but the Genius throttle.
exceptGt == <<coreVars, yVars, sVars, gVars, fVars, eVars, cVars, resVars, scVars, go, tr, ky>>

ThrottleNext ==
    \/ \E c \in GtCallers : GtCheckRateLimit(c) /\ UNCHANGED exceptGt
    \/ \E c \in GtCallers : GtRateWake(c) /\ UNCHANGED exceptGt
    \/ \E c \in GtCallers : GtResponse(c) /\ UNCHANGED exceptGt
    \/ GtTick /\ UNCHANGED exceptGt

SpecThrottle == Init /\ [][ThrottleNext]_vars

\* Everything but the entries by key.
exceptKy == <<coreVars, yVars, sVars, gVars, fVars, eVars, cVars, resVars, scVars, go, tr, gt>>

KeyNext ==
    \/ \E name \in KyNames, opts \in KyOptions, storeFails \in BOOLEAN :
          KyAnalyzeArtist(name, opts, storeFails) /\ UNCHANGED exceptKy
    \/ \E k \in KyKeys : KyExpire(k) /\ UNCHANGED exceptKy

SpecKey == Init /\ [][KeyNext]_vars

-----------------------------------------------------------------------------
(***************************************************************************)
(* Properties of analyzeArtist and of the suggestions request              *)
(***************************************************************************)

\* C1: for each of the four providers p, when every call to p fails while the
\* calls to the other three succeed, analyzeArtist still returns an analysis
\* and does not throw.
C1_SingleProviderFailureTolerated ==
    \A p \in Providers : aCall.down = {p} => aCall.pc # "threw"

HasStatic(r) == \E i \in 1..Len(r.suggestions) : r.suggestions[i].origin = "static"

HasProvider(r) == \E i \in 1..Len(r.suggestions) : r.suggestions[i].origin = "provider"

\* C2: when the calls to all four providers fail or time out, a suggestions
\* request with a valid body is still answered with a success response, built
\* from the static suggestion table, with fallback_used true.
C2_TotalFailureFallsBack ==
    (post.pc = "sent" /\ post.kind = "valid" /\ post.down = Providers) =>
        /\ pResp.status = 200
        /\ pResp.success
        /\ pResp.fallback_used
        /\ pResp.suggestions = GenerateMockSuggestions(post.artist, post.limit)

\* C2 witness: the orchestrator was built, its calls to the providers failed, and
\* the response carries the static table's suggestions, flagged.
C2_Witness ==
    /\ post.pc = "sent"
    /\ post.kind = "valid"
    /\ post.down = Providers
    /\ post.called # {}
    /\ pResp.fallback_used
    /\ Len(pResp.suggestions) > 0

\* C3: in every response, suggestions from the static table come with
\* fallback_used true, and no response holds both suggestions from the static
\* table and suggestions computed from provider data.
C3_StaticAlwaysFlagged ==
    post.pc = "sent" =>
        /\ HasStatic(pResp) => pResp.fallback_used
        /\ ~(HasStatic(pResp) /\ HasProvider(pResp))

\* C3 witness: the providers returned candidates, and the response holds
\* suggestions from the static table.
C3_Witness ==
    /\ post.pc = "sent"
    /\ post.total > 0
    /\ HasStatic(pResp)

SecondCallReturned ==
    /\ aCall.pc = "done"
    /\ aPrev.completed
    /\ aPrev.opts = aCall.opts
    /\ ~aPrev.changed

\* C5, as the specification states it: the second call with the same arguments
\* over an unchanged cache returns cached = true and calls no provider.
C5_SecondCallIsCached ==
    SecondCallReturned => aCall.result.cached /\ aCall.called = {}

\* C5, amended: the second call returns cached = true and calls no provider
\* when, besides, the arguments carry no forceRefresh, the first call left its
\* result in the store (the cache client was connected and the write
\* succeeded), and the second call's read reaches the store (the client is
\* connected and the GET does not fail).
C5_SecondCallIsCachedWhenStored ==
    (SecondCallReturned /\ ~aCall.opts.forceRefresh /\ aPrev.stored /\ aCall.readOk) =>
        aCall.result.cached /\ aCall.called = {}

\* C5 witness: a second call that found the first call's entry.
C5_Witness ==
    /\ SecondCallReturned
    /\ ~aCall.opts.forceRefresh
    /\ aPrev.stored
    /\ aCall.readOk
    /\ aCall.result.cached

-----------------------------------------------------------------------------
(***************************************************************************)
(* Properties of RedisClient.getOrSet                                      *)
(***************************************************************************)

\* C6: whenever getOrSet finds a live (unexpired) entry under the key, it
\* returns the stored value and never invokes the factory.
C6_LiveEntryNeverRunsFactory ==
    \A c \in GsCalls :
        gs[c].live # NoLive =>
            /\ ~gs[c].ranFactory
            /\ gs[c].pc \in {"return", "done"} => gs[c].value = gs[c].live

\* The store holds, under the call's key, the call's value as JSON returns it.
HoldsValue(c) ==
    /\ rStore[gs[c].key].present
    /\ rStore[gs[c].key].data = JsonRoundTrip(gs[c].value)

\* C7, as the specification states it: at the moment getOrSet returns after a
\* miss, the store holds the factory's value under the key.
C7_StoredAtReturn ==
    \A c \in GsCalls : (gs[c].pc = "return" /\ gs[c].ranFactory) => HoldsValue(c)

\* C7, amended: after a miss getOrSet invokes the factory, then attempts the
\* write, and only then returns the value.  At the moment it returns the store
\* holds the value (as JSON returns it) under the key if the write succeeded
\* (the client was connected and SETEX did not fail) and no other operation has
\* changed the key since; nothing is written before the factory has run.
C7_StoredAtReturnWhenWritten ==
    \A c \in GsCalls :
        /\ (gs[c].pc = "return" /\ gs[c].ranFactory /\ gs[c].setOk /\ ~gs[c].clobbered)
              => HoldsValue(c)
        /\ gs[c].setOk => gs[c].ranFactory /\ gs[c].pc \in {"return", "done"}
        /\ gs[c].pc = "set" => gs[c].ranFactory

\* C7 witness: a call is about to return a value its factory produced and its
\* write stored.
C7_Witness ==
    \E c \in GsCalls :
        /\ gs[c].pc = "return"
        /\ gs[c].ranFactory
        /\ gs[c].setOk
        /\ ~gs[c].clobbered
        /\ gs[c].value # Null
        /\ HoldsValue(c)

-----------------------------------------------------------------------------
(***************************************************************************)
(* Properties of the Last.fm request queue                                 *)
(***************************************************************************)

\* C8: measured at the transport, one Last.fm client starts at most
\* RATE_LIMIT (5) requests within any one-second interval, however many calls
\* are submitted and however they interleave.  lfStarts holds exactly the
\* starts of the last second, so its length is the number of starts in the
\* one-second interval that ends now.
C8_QuotaPerSecond == Len(lfStarts) <= RATE_LIMIT

\* C8 witness: more calls than the quota were submitted within one second (the
\* first call's start is still inside the interval), the quota is used up and
\* the excess calls wait in the queue.
C8_Witness ==
    /\ Len(lfSubmitted) = MaxCalls
    /\ Len(lfSent) = Len(lfStarts)
    /\ Len(lfStarts) = RATE_LIMIT
    /\ Len(lfQueue) > 0

\* A submitted call is in exactly one place: waiting in the queue, or handed to
\* the transport; and only a call that reached the transport is ever rejected.
LfNeverDropped ==
    \A c \in LfCalls :
        /\ (c \in {lfSubmitted[i] : i \in 1..Len(lfSubmitted)}) =>
              \/ \E i \in 1..Len(lfQueue) : lfQueue[i] = c
              \/ \E i \in 1..Len(lfSent) : lfSent[i] = c
        /\ lfStatus[c] = "rejected" => \E i \in 1..Len(lfSent) : lfSent[i] = c

\* No call is waiting for its turn or for its answer.
LfNonePending == \A c \in LfCalls : lfStatus[c] \notin {"queued", "inflight"}

\* C9: every call submitted to the Last.fm client is eventually sent to the
\* transport and its caller's promise eventually settles; a call over the quota
\* waits in the queue and is neither dropped nor rejected by the rate limiter.
\* A settled call stays settled, so "every pending call is eventually settled"
\* is: again and again no call is pending.
C9_EveryCallServed == []LfNeverDropped /\ []<>LfNonePending

\* C9 witness: the last call, which had to wait in the queue behind more calls
\* than the quota allows per second, has been sent and has settled.
C9_Witness ==
    /\ Len(lfSubmitted) = MaxCalls
    /\ MaxCalls > RATE_LIMIT
    /\ \A c \in LfCalls : lfStatus[c] \in {"resolved", "rejected"}
    /\ lfSent = lfSubmitted

\* C10: Last.fm requests reach the transport in the order in which they were
\* submitted (first in, first out), and at most one is sent per drain interval:
\* two starts are never less than one drain pause apart.
C10_FifoOnePerInterval ==
    /\ Len(lfSent) <= Len(lfSubmitted)
    /\ lfSent = SubSeq(lfSubmitted, 1, Len(lfSent))
    /\ \A i \in 1..Len(lfStarts) : \A j \in 1..Len(lfStarts) :
          i < j => lfStarts[i] - lfStarts[j] >= DrainDelayTicks

\* C10 witness: several calls were queued behind a running request and three
\* of them have been sent, one drain interval apart.
C10_Witness ==
    /\ Len(lfSent) >= 3
    /\ Len(lfQueue) >= 2
    /\ Len(lfStarts) >= 3

-----------------------------------------------------------------------------
\* C11: once the accounted quota usage leaves less budget than a call
\* costs, no request for that call is sent: every request on its way to or
\* at the service passed the quota check with enough budget for its cost.
C11_NoRequestWithoutBudget ==
    \A c \in YtCalls :
        yt[c].pc \in {"searchWait", "searchSent", "detailsWait", "detailsSent"}
            => ~yt[c].budgetShort

\* C12: the accounted quota usage never exceeds the daily limit.
C12_QuotaWithinDailyLimit == ytQuotaUsed <= DailyQuotaLimit

-----------------------------------------------------------------------------
\* C13: at most one token request is in flight at any time, however many
\* API requests are issued while no valid token is held.
C13_SingleRefreshInFlight ==
    Cardinality({r \in SpRequests : sp[r].pc = "refreshing"}) <= 1

\* C14: spotify-client.ts sends no API request while the token is absent or
\* within the 300 s before its expiry.
C14_SentOnlyWithValidToken ==
    spImpl = "SpotifyClient" =>
        \A r \in SpRequests : sp[r].pc = "sent" => sp[r].sentWith = "valid"

\* C15: a request answered with 401 is sent again (once) after the forced
\* refresh succeeded: a failure with status 401 is reported only for a
\* request that was sent again.
C15_Retried401Once ==
    \A r \in SpRequests :
        (sp[r].pc = "failed" /\ sp[r].status = 401) => sp[r].retry

\* C16: no request is retried indefinitely: every request issued is
\* eventually answered to its caller, with a result or with a failure.
C16_EveryRequestSettles ==
    \A r \in SpRequests :
        (sp[r].pc = "ensure") ~> (sp[r].pc \in {"done", "failed"})

\* C17: a request answered with a transient error (5xx) is sent again; its
\* failure is not reported on the first occurrence.
C17_TransientErrorRetried ==
    \A r \in SpRequests :
        (sp[r].pc = "failed" /\ sp[r].status = 500) => sp[r].resent

-----------------------------------------------------------------------------
GnBlocked(q) == gn.reqs[q].error = TemporarilyUnavailable

\* C18: a Genius request answered 403 or 503, and no other, is reported as
\* 'Genius API temporarily unavailable'; an analysis whose Genius search or
\* artist request was blocked that way, the other providers answering,
\* completes with the other providers' data and without Genius data.
C18_EdgeBlockSkipsGenius ==
    /\ \A q \in GnRequestNames :
          gn.reqs[q].pc = "error" =>
              (GnBlocked(q) <=> gn.reqs[q].status \in {403, 503})
    /\ (/\ gn.pc = "returned"
        /\ GnBlocked("search") \/ GnBlocked("artist")
        /\ gn.others = AllAnswer)
          => /\ gn.analysis.status = "completed"
             /\ gn.analysis.genius = Null
             /\ gn.analysis.spotify = "data"
             /\ gn.analysis.lastfm = "data"

C18_Witness ==
    /\ gn.pc = "returned"
    /\ gn.reqs["search"].status = 503
    /\ GnBlocked("search")
    /\ gn.others = AllAnswer
    /\ gn.analysis.status = "completed"

\* C19: a request that ended in an edge-protection block has not been
\* counted in requestCount.
C19_BlockedRequestNotCounted ==
    \A q \in GnRequestNames : GnBlocked(q) => ~gn.reqs[q].counted

-----------------------------------------------------------------------------
\* C20: when the call to one provider exceeds its deadline (the client's
\* request timeout rejects it, as any failed call) while the other providers
\* answer, analyzeArtist still completes and returns the analysis built from
\* the other providers' results.
C20_DeadlineIsSoftFailure ==
    \A p \in Providers :
        (aCall.down = {p} /\ aCall.pc \in {"done", "threw"}) =>
            (aCall.pc = "done" /\ aCall.result.data # Null)

-----------------------------------------------------------------------------
(***************************************************************************)
(* The order of a request's states (analyzeArtist).                        *)
(***************************************************************************)
HitPath == <<"RECEIVED", "CACHE_CHECK", "CACHE_HIT", "DONE">>

MissPath ==
    <<"RECEIVED", "CACHE_CHECK", "CACHE_MISS", "FAN_OUT", "MERGE", "ENRICH",
      "SCORE", "CACHE_STORE", "DONE">>

\* The path of a call with options.forceRefresh: the cache is not consulted.
ForcedPath ==
    <<"RECEIVED", "FAN_OUT", "MERGE", "ENRICH", "SCORE", "CACHE_STORE", "DONE">>

IsPrefix(s, t) == Len(s) <= Len(t) /\ \A i \in 1..Len(s) : s[i] = t[i]

Visited(state, trace) == \E i \in 1..Len(trace) : trace[i] = state

\* A step that puts a value under key k.
Written(k) == aStore'[k] # Absent /\ aStore'[k] # aStore[k]

\* C21 as stated: every request passes through RECEIVED, CACHE_CHECK and then
\* CACHE_HIT, DONE or CACHE_MISS, FAN_OUT, MERGE, ENRICH, SCORE, CACHE_STORE,
\* DONE, in this order with no state skipped or repeated, and the cache is
\* written only on the miss path after scoring.
C21_StatesInOrder ==
    [][ /\ \/ IsPrefix(aCall'.trace, HitPath)
           \/ IsPrefix(aCall'.trace, MissPath)
        /\ \A k \in AKeys :
              Written(k) => /\ Visited("CACHE_MISS", aCall'.trace)
                            /\ Visited("SCORE", aCall'.trace) ]_vars

\* C21, amended: a call without forceRefresh passes through the states in the
\* stated order; a call with forceRefresh skips CACHE_CHECK and CACHE_MISS and
\* goes from RECEIVED to FAN_OUT; the analysis entry is written only at
\* CACHE_STORE, after SCORE, by a call that had no hit, while the providers'
\* entries are written from FAN_OUT on, before CACHE_STORE.
C21_StatesInOrderUnlessForced ==
    [][ /\ IF aCall'.opts.forceRefresh
           THEN IsPrefix(aCall'.trace, ForcedPath)
           ELSE \/ IsPrefix(aCall'.trace, HitPath)
                \/ IsPrefix(aCall'.trace, MissPath)
        /\ \A o \in AOptions :
              Written(AnalysisKey(o)) =>
                 /\ o = aCall.opts
                 /\ Visited("SCORE", aCall.trace)
                 /\ ~Visited("CACHE_HIT", aCall'.trace)
                 /\ ~Visited("CACHE_STORE", aCall.trace)
                 /\ Visited("CACHE_STORE", aCall'.trace)
        /\ \A p \in Providers :
              Written(ProviderKey(p)) =>
                 /\ Visited("FAN_OUT", aCall'.trace)
                 /\ ~Visited("CACHE_STORE", aCall'.trace) ]_vars

\* A forced call has returned after FAN_OUT .. CACHE_STORE without a cache
\* lookup, and its result is in the store.
C21_Witness ==
    /\ aCall.pc = "done"
    /\ aCall.opts.forceRefresh
    /\ aCall.trace = ForcedPath
    /\ aStore[AnalysisKey(aCall.opts)] # Absent

-----------------------------------------------------------------------------
(***************************************************************************)
(* The candidates of findSimilarArtists.                                   *)
(***************************************************************************)
\* Two names are equal ignoring letter case.
EqualIgnoringCase(a, b) == a = b \/ {a, b} = {"Gunna", "GUNNA"}

\* The provider was asked, its call succeeded and its list holds the artist.
Supplied(p, name) ==
    /\ p \in fs.sources
    /\ fs.outcomes[p].ok
    /\ \E i \in 1..Len(fs.outcomes[p].list) :
          EqualIgnoringCase(fs.outcomes[p].list[i].name, name)

TagCount(tags, t) == Cardinality({i \in 1..Len(tags) : tags[i] = t})

\* C22: every returned candidate's sources holds a provider's tag exactly
\* when that provider's call succeeded and supplied the artist, each tag at
\* most once, and never the tag of a provider whose call failed.
C22_SourcesAreExact ==
    fs.pc = "done" =>
       \A i \in 1..Len(fs.candidates) : \A p \in {"spotify", "lastfm"} :
          /\ TagCount(fs.candidates[i].sources, p) <= 1
          /\ TagCount(fs.candidates[i].sources, p) >= 1 <=> Supplied(p, fs.candidates[i].name)

C24_RankedByScore ==
    fs.pc = "done" =>
       /\ \A i \in 1..Len(fs.candidates) : \A j \in 1..Len(fs.candidates) :
             i < j => fs.candidates[i].score >= fs.candidates[j].score
       /\ fs.candidates =
             RankCandidates(fs.impl,
                            MergeAll(fs.impl, <<"spotify", "lastfm">>, fs.sources, fs.outcomes,
                                     [threw |-> FALSE, map |-> << >>]).map)

\* A result of several candidates with different scores.
C24_Witness ==
    /\ fs.pc = "done"
    /\ Len(fs.candidates) >= 2
    /\ fs.candidates[1].score > fs.candidates[2].score
    /\ Len(fs.outcomes["lastfm"].list) > 0

-----------------------------------------------------------------------------
(***************************************************************************)
(* Invalid input.                                                          *)
(***************************************************************************)
\* The artist name is missing, empty or not a string.
InvalidName(v) == v.type # "string" \/ v.text = ""

\* C25: a request whose artist name is missing, empty or not a string is
\* rejected with a validation error at once: it reads no cache entry and calls
\* no provider, at whichever entry point it arrives.
C25_InvalidInputRejected ==
    InvalidName(en.value) /\ en.pc # "idle" =>
       /\ ~en.cacheAccess
       /\ en.providerCalls = {}
       /\ en.pc = "done" => en.outcome = "VALIDATION_ERROR"

-----------------------------------------------------------------------------
(***************************************************************************)
(* set followed by a read.                                                 *)
(***************************************************************************)
\* C26 as stated: a get issued immediately after set(k, v, ttl) returns v,
\* for every key, value and ttl.
C26_GetAfterSetReturnsValue ==
    sg.pc = "afterRead" /\ sg.via = "get" /\ sg.immediate => sg.result = sg.value

\* C26, amended: when set stored the entry (the client was connected and SETEX
\* succeeded) a get issued immediately after it whose GET the server answers
\* returns the value as JSON gives it back (the value itself when JSON
\* preserves it), whatever the ttl; a get whose GET fails returns null; when
\* the client was not connected, set stored nothing and the get returns null.
C26_GetAfterSetReturnsJsonValue ==
    sg.pc = "afterRead" /\ sg.via = "get" /\ sg.immediate =>
       /\ sg.setOk /\ sg.reached => sg.hit /\ sg.result = JsonRoundTrip(sg.value)
       /\ sg.setOk /\ sg.reached /\ sg.value = JsonRoundTrip(sg.value) => sg.result = sg.value
       /\ ~sg.reached => ~sg.hit /\ sg.result = Null
       /\ ~sg.connectedAtSet => ~sg.setOk /\ ~sg.hit /\ sg.result = Null

\* A get immediately after a set of a plain value found it.
C26_Witness ==
    /\ sg.pc = "afterRead" /\ sg.via = "get" /\ sg.immediate
    /\ sg.setOk /\ sg.hit
    /\ sg.value = "artist" /\ sg.result = "artist"

\* C27: once the time is past the set time plus the entry's ttl, a read of the
\* key, by get or by getBatch, reports a miss and does not return the expired
\* value, whether the server has removed the key or not.
C27_ExpiredNeverRead ==
    sg.pc = "afterRead" =>
       /\ sg.stale => ~sg.hit /\ sg.result = Null
       /\ sg.past => ~sg.hit /\ sg.result = Null

\* A read found the caller's own entry still at the server, past its ttl, and
\* reported a miss.
C27_Witness ==
    /\ sg.pc = "afterRead"
    /\ sg.stale /\ sg.past
    /\ ~sg.hit

-----------------------------------------------------------------------------
(***************************************************************************)
(* The second call's result.                                               *)
(***************************************************************************)
\* The second call returned the entry the first call stored.
SecondFromFirst == rp.pc = "second" /\ rp.second.cached /\ ~rp.overwritten

\* C28 as stated: the result the second call returns from the cache is
\* identical to the first call's result in every field but cached.
C28_CachedResultIdentical ==
    SecondFromFirst => [rp.second EXCEPT !.cached = FALSE] = [rp.first EXCEPT !.cached = FALSE]

\* C28, amended: the result the second call returns from the cache agrees with
\* the first call's result in every field but cached and processingTime, a
\* Date of the first result being its string in the second.
C28_CachedResultSameData ==
    SecondFromFirst =>
       /\ rp.second.spotifyData = rp.first.spotifyData
       /\ rp.second.geniusData = rp.first.geniusData
       /\ rp.second.youtubeMetrics =
             (IF rp.first.youtubeMetrics = "metrics(Date)" THEN "metrics(string)"
              ELSE rp.first.youtubeMetrics)

\* A second call returned from the cache what a first call had computed with
\* fresh YouTube metrics, in a different processing time.
C28_Witness ==
    /\ SecondFromFirst
    /\ rp.first.youtubeMetrics = "metrics(Date)"
    /\ rp.first.geniusData = Null
    /\ rp.second.processingTime # rp.first.processingTime

-----------------------------------------------------------------------------
(***************************************************************************)
(* The final score.                                                        *)
(***************************************************************************)
\* A FinalScore has been produced.
Scored == sc.pc \in {"scored", "adjusted"}

\* C29: whatever the component scores, negative ones and ones above 10
\* included, the overall_score of the FinalScore the scoring engine produces
\* lies in [0, 10].
C29_OverallScoreInRange ==
    Scored => sc.final.overall_score >= 0 /\ sc.final.overall_score <= 1000

-----------------------------------------------------------------------------
(***************************************************************************)
(* The genre overlap.                                                      *)
(***************************************************************************)
\* C31: for all genre sets G1 and G2, genreOverlap(G1, G2) equals
\* genreOverlap(G2, G1).
C31_OverlapSymmetric ==
    go.pc = "swapped" => go.overlap.num * go.swapped.den = go.swapped.num * go.overlap.den

\* C32: for all genre sets G1 and G2, genreOverlap(G1, G2) lies in [0, 1], and
\* genreOverlap(G, G) is 1 for every non-empty G.
C32_OverlapInUnitRange ==
    go.pc # "idle" =>
       /\ go.overlap.num >= 0
       /\ go.overlap.num <= go.overlap.den
       /\ (go.genres1 = go.genres2 /\ go.genres1 # << >> => go.overlap.num = go.overlap.den)

-----------------------------------------------------------------------------
(***************************************************************************)
(* The calculators.                                                        *)
(***************************************************************************)
\* C33: a calculator returns the same output for the same input data on every
\* invocation: the second analyzeTrends of the same videos returns what the
\* first returned.
C33_SameInputSameOutput == tr.pc = "second" => tr.second = tr.first

-----------------------------------------------------------------------------
(***************************************************************************)
(* The throttles under concurrent callers.                                 *)
(***************************************************************************)
\* The requests the callers 1..n have sent since the last tick of the clock,
\* that is, within the same minute.
RECURSIVE SentThisMinute(_)
SentThisMinute(n) == IF n = 0 THEN 0 ELSE sp[n].sends + SentThisMinute(n - 1)

\* C34: in every 60-second window the Spotify client sends at most
\* requestsPerMinute requests, whatever the number of concurrent callers.
C34_AtMostLimitPerMinute ==
    spImpl = "SpotifyClient" => SentThisMinute(MaxSpRequests) <= RequestsPerMinute

\* C35: any two requests the Genius client sends are at least 500 ms apart,
\* also when concurrent callers issue them.
C35_RequestsHalfSecondApart ==
    gt.sent >= 2 => (gt.lastSend - gt.prevSend) * GtTickMs >= MinIntervalMs

-----------------------------------------------------------------------------
(***************************************************************************)
(* The entries of analyzeArtist by key.                                    *)
(***************************************************************************)
\* A call without forceRefresh has returned right after a call with
\* forceRefresh for the same name.
AfterRefresh ==
    /\ ky.calls >= 2
    /\ ky.prev.opts.forceRefresh
    /\ ~ky.last.opts.forceRefresh
    /\ ky.last.name = ky.prev.name

\* C36: after analyzeArtist(name) with forceRefresh has completed, the next
\* analyzeArtist(name) without forceRefresh does not return an entry cached
\* before the refresh: its result is the refreshed one or a newer one.
C36_RefreshReplacesEntry ==
    AfterRefresh => ky.last.result.version >= ky.prev.result.version

\* C40: a cache hit in analyzeArtist(name, options) returns a result that was
\* computed for the same name, up to letter case, and for the same options.
C40_HitIsForSameRequest ==
    ky.last.cached =>
       /\ ToLowerCase(ky.last.result.name) = ToLowerCase(ky.last.name)
       /\ ky.last.result.opts = ky.last.opts

-----------------------------------------------------------------------------
(***************************************************************************)
(* Reads and the store.                                                    *)
(***************************************************************************)
\* C37: a read (get or getBatch) that finds an entry whose timestamp plus ttl
\* has passed leaves the key absent from the store, and a read that finds an
\* unexpired entry leaves the entry as it is.
C37_ReadEvictsExpired ==
    [][(sg.pc = "afterSet" /\ sg'.pc = "afterRead" /\ sg'.reached /\ rStore[sg.key].present) =>
          IF sg'.stale THEN ~rStore'[sg.key].present
          ELSE rStore'[sg.key] = rStore[sg.key]]_vars

\* C38: a failure of the store never reaches the caller of getOrSet.  A call
\* never rejects for a store operation that was skipped (client not connected)
\* or that failed; it rejects only when its factory threw, before any write;
\* and a call that returns after its factory ran returns what the factory
\* produced, whether or not the write succeeded.
C38_StoreFailureNotPropagated ==
    \A c \in GsCalls :
        /\ gs[c].pc # "storeThrew"
        /\ gs[c].pc = "threw" => gs[c].ranFactory /\ ~gs[c].setOk
        /\ (gs[c].pc \in {"return", "done"} /\ gs[c].ranFactory)
              => gs[c].value \in FactoryValues

\* C38 witness: a call has returned its factory's value although its write
\* stored nothing and the client is not connected.
C38_Witness ==
    \E c \in GsCalls :
        /\ gs[c].pc = "done"
        /\ gs[c].ranFactory
        /\ ~gs[c].setOk
        /\ gs[c].value = "artist"
        /\ ~rConnected
        /\ ~rStore[gs[c].key].present

\* C39: while a key holds a live entry (written by an earlier getOrSet, its
\* time-to-live not yet elapsed), a getOrSet of that key is served from the
\* store whatever the stored value is, null included: a call goes on to its
\* factory only when its GET found no live entry, and a call that found one
\* returns the entry's data.
C39_LiveEntryServesEveryValue ==
    \A c \in GsCalls :
        /\ gs[c].pc = "factory" => gs[c].live = NoLive
        /\ (gs[c].pc \in {"return", "done"} /\ gs[c].live # NoLive /\ ~gs[c].ranFactory)
              => gs[c].value = gs[c].live

=============================================================================
